---------------------------- MODULE Spec2Model ----------------------------
(***************************************************************************)
(* A model of python-icat's dump file backend: icat/dumpfile.py            *)
(* (DumpFileReader, DumpFileWriter) and its XML backend                    *)
(* icat/dumpfile_xml.py.                                                   *)
(*                                                                         *)
(* The entity classes (icat.entity) and the client (icat.client) are not   *)
(* part of the sources at hand.  They are modelled from the specification  *)
(* (sections 3, 4.1, 4.2 and 6) over a reduced schema of five entity       *)
(* types.                                                                  *)
(***************************************************************************)
EXTENDS Integers, Sequences, FiniteSets, TLC

(***************************************************************************)
(* Bounds of the model.                                                    *)
(***************************************************************************)
\* the number of writedata and writeobjs calls of one writer
MaxCalls == 3
\* the files read back are those written with at most so many calls
MaxFileCalls == 2
\* the scenario of a large dump: the number of objects of one type the
\* ICAT holds, and the number of states of the ICAT tried below it
Instances == 250
Smaller == 40

(***************************************************************************)
(* Values.  Every value is a record with a field k that tells its kind,    *)
(* so that any two values can be compared.                                 *)
(***************************************************************************)
None == [k |-> "none"]
S(s) == [k |-> "str", s |-> s]
I(n) == [k |-> "int", n |-> n]
B(b) == [k |-> "bool", b |-> b]
\* a datetime.datetime: its ISO format without zone, and whether it carries
\* timezone info (the model knows aware values in UTC only)
D(iso, aware) == [k |-> "datetime", iso |-> iso, aware |-> aware]

(***************************************************************************)
(* The entity graph model: per entity type the instance attributes, the    *)
(* many-to-one relations, the one-to-many relations and the uniqueness     *)
(* constraint.                                                             *)
(***************************************************************************)
Types == {"Facility", "Investigation", "Keyword", "DataCollection", "Job"}

InstAttr(t) ==
  CASE t = "Facility"       -> {"id", "name", "daysUntilRelease"}
    [] t = "Investigation"  -> {"id", "name", "startDate"}
    [] t = "Keyword"        -> {"id", "name"}
    [] t = "DataCollection" -> {"id", "doi"}
    [] t = "Job"            -> {"id", "arguments"}

InstRel(t) ==
  CASE t = "Investigation"  -> {"facility"}
    [] t = "Keyword"        -> {"investigation"}
    [] t = "Job"            -> {"inputDataCollection"}
    [] OTHER                -> {}

InstMRel(t) ==
  CASE t = "Investigation"  -> {"keywords"}
    [] t = "DataCollection" -> {"jobsAsInput"}
    [] OTHER                -> {}

\* the type of the objects a relation attribute holds
getAttrType(t, attr) ==
  CASE attr = "facility"            -> "Facility"
    [] attr = "investigation"       -> "Investigation"
    [] attr = "inputDataCollection" -> "DataCollection"
    [] attr = "keywords"            -> "Keyword"
    [] attr = "jobsAsInput"         -> "Job"

Constraint(t) ==
  CASE t = "Facility"       -> <<"name">>
    [] t = "Investigation"  -> <<"facility", "name">>
    [] t = "Keyword"        -> <<"name", "investigation">>
    [] OTHER                -> <<"id">>

\* 'id' in obj.Constraint
HasIdConstraint(t) == \E i \in 1..Len(Constraint(t)) : Constraint(t)[i] = "id"

\* obj.instancetype, the XML tag of a record; client.typemap maps it back
instancetype(t) ==
  CASE t = "Facility"       -> "facility"
    [] t = "Investigation"  -> "investigation"
    [] t = "Keyword"        -> "keyword"
    [] t = "DataCollection" -> "dataCollection"
    [] t = "Job"            -> "job"

\* every attribute and relation name of the schema, in the order Python's
\* sorted() puts them
SortedNames == <<"arguments", "daysUntilRelease", "doi", "facility", "id",
                 "inputDataCollection", "investigation", "jobsAsInput",
                 "keywords", "name", "startDate">>

\* sorted(names)
Sorted(names) == SelectSeq(SortedNames, LAMBDA a : a \in names)

\* An entity object: its type, its id, its attribute values, its related
\* objects (None when not set or not included) and its lists of children.
Entity(t, id, attr, rel, mrel) ==
  [k |-> "obj", BeanName |-> t, id |-> id, attr |-> attr, rel |-> rel,
   mrel |-> mrel]

\* getattr(obj, attr, None) for an instance attribute
GetAttr(obj, a) ==
  IF a = "id" THEN (IF obj.id = 0 THEN None ELSE I(obj.id))
  ELSE IF a \in DOMAIN obj.attr THEN obj.attr[a] ELSE None

\* getattr(obj, attr, None) for a many-to-one relation
GetRel(obj, a) == IF a \in DOMAIN obj.rel THEN obj.rel[a] ELSE None

\* getattr(obj, attr) for a one-to-many relation
GetMRel(obj, a) == IF a \in DOMAIN obj.mrel THEN obj.mrel[a] ELSE <<>>


(***************************************************************************)
(* Strings.  TLC cannot take a string apart, so the functions of the       *)
(* strings of the model are tables over them.                              *)
(***************************************************************************)
\* the strings that occur as attribute values, in Python's string order
StrOrder == <<"a", "b c", "p", "q", "x">>

StrRank(s) == IF \E i \in 1..Len(StrOrder) : StrOrder[i] = s
              THEN CHOOSE i \in 1..Len(StrOrder) : StrOrder[i] = s
              ELSE 0

\* quote(s): the characters that are not safe are percent-encoded
quote(s) == IF s = "b c" THEN "b%20c" ELSE s

\* str(v)
Str(v) ==
  CASE v.k = "str"      -> v.s
    [] v.k = "int"      -> ToString(v.n)
    [] v.k = "bool"     -> (IF v.b THEN "True" ELSE "False")
    [] v.k = "datetime" -> v.iso
    [] OTHER            -> "None"

RECURSIVE Zeros(_)
Zeros(n) == IF n <= 0 THEN "" ELSE "0" \o Zeros(n - 1)

RECURSIVE NumDigits(_)
NumDigits(n) == IF n < 10 THEN 1 ELSE 1 + NumDigits(n \div 10)

\* "%08d" % n
Fmt08(n) == Zeros(8 - NumDigits(n)) \o ToString(n)

(***************************************************************************)
(* Unique keys.  A key is the type name and the rest of the key; the key   *)
(* string is "<type>_<rest>".                                              *)
(***************************************************************************)
Key(t, b) == [t |-> t, b |-> b]
KeyStr(key) == key.t \o "_" \o key.b

\* the key index of an empty dict
EmptyIndex == [x \in {} |-> Key("", "")]

\* d[k] = v
Put(d, k, v) == [x \in (DOMAIN d) \cup {k} |-> IF x = k THEN v ELSE d[x]]

\* Entity.getUniqueKey(keyindex=keyindex): the key of obj, derived from
\* the values of the attributes of its constraint, in their order, the key
\* of a related object being derived in turn; the key index is consulted
\* first and updated with every key derived.  Fails when an attribute of
\* the constraint is not set.  The operators below are its steps; the
\* result is [ok, key, keyindex], and keyindex is the index as the call
\* leaves it, failed or not.
RECURSIVE getUniqueKey(_, _)
RECURSIVE KeyParts(_, _, _)

\* a scalar attribute of the constraint
AttrPart(c, sep, v, acc) ==
  IF v = None THEN [acc EXCEPT !.ok = FALSE]
  ELSE [acc EXCEPT !.body = @ \o sep \o c \o "-" \o quote(Str(v))]

\* a relation of the constraint, r the key of the related object
RelPartKey(c, sep, r, acc) ==
  IF ~r.ok THEN [acc EXCEPT !.ok = FALSE, !.keyindex = r.keyindex]
  ELSE [acc EXCEPT !.body = @ \o sep \o c \o "-(" \o r.key.b \o ")",
                   !.keyindex = r.keyindex]

RelPart(c, sep, o, acc) ==
  IF o = None THEN [acc EXCEPT !.ok = FALSE]
  ELSE RelPartKey(c, sep, getUniqueKey(o, acc.keyindex), acc)

KeyPart(obj, c, sep, acc) ==
  IF c \in InstAttr(obj.BeanName)
  THEN AttrPart(c, sep, GetAttr(obj, c), acc)
  ELSE RelPart(c, sep, GetRel(obj, c), acc)

KeyParts(obj, i, acc) ==
  IF i > Len(Constraint(obj.BeanName)) \/ ~acc.ok THEN acc
  ELSE KeyParts(obj, i + 1,
                KeyPart(obj, Constraint(obj.BeanName)[i],
                        IF i = 1 THEN "" ELSE "_", acc))

\* Derived, the id of the object made part of the key
DerivedWithId(obj, r) ==
  [ok |-> r.ok, key |-> Key(obj.BeanName, r.body \o "_" \o ToString(obj.id)),
   keyindex |-> IF r.ok THEN Put(r.keyindex, <<obj.BeanName, obj.id>>,
                                 Key(obj.BeanName,
                                     r.body \o "_" \o ToString(obj.id)))
                ELSE r.keyindex]

\* the key derived, registered in the key index
Derived(obj, r) ==
  [ok |-> r.ok, key |-> Key(obj.BeanName, r.body),
   keyindex |-> IF r.ok THEN Put(r.keyindex, <<obj.BeanName, obj.id>>,
                                 Key(obj.BeanName, r.body))
                ELSE r.keyindex]

getUniqueKey(obj, keyindex) ==
  IF <<obj.BeanName, obj.id>> \in DOMAIN keyindex
  THEN [ok |-> TRUE, key |-> keyindex[<<obj.BeanName, obj.id>>],
        keyindex |-> keyindex]
  ELSE Derived(obj, KeyParts(obj, 1, [ok |-> TRUE, body |-> "",
                                      keyindex |-> keyindex]))

(***************************************************************************)
(* The canonical order of entity objects.                                  *)
(***************************************************************************)
TypeOrder == <<"DataCollection", "Facility", "Investigation", "Job", "Keyword">>
TypeRank(t) == CHOOSE i \in 1..Len(TypeOrder) : TypeOrder[i] = t

ValRank(v) ==
  CASE v.k = "str" -> StrRank(v.s)
    [] v.k = "int" -> v.n
    [] OTHER       -> 0

\* Entity.__sortkey__: the type name, then the values of the attributes of
\* the constraint, a related object by its own sort key
RECURSIVE SortParts(_, _)
RelSortPart(o) ==
  IF o = None THEN <<>> ELSE <<TypeRank(o.BeanName)>> \o SortParts(o, 1)

SortPart(obj, c) ==
  IF c \in InstAttr(obj.BeanName) THEN <<ValRank(GetAttr(obj, c))>>
  ELSE RelSortPart(GetRel(obj, c))

SortParts(obj, i) ==
  IF i > Len(Constraint(obj.BeanName)) THEN <<>>
  ELSE SortPart(obj, Constraint(obj.BeanName)[i]) \o SortParts(obj, i + 1)

sortkey(obj) == <<TypeRank(obj.BeanName)>> \o SortParts(obj, 1)

\* a < b for two sort keys, as Python compares lists
RECURSIVE KeyLess(_, _)
KeyLess(a, b) ==
  IF b = <<>> THEN FALSE
  ELSE IF a = <<>> THEN TRUE
  ELSE IF Head(a) # Head(b) THEN Head(a) < Head(b)
  ELSE KeyLess(Tail(a), Tail(b))

\* insert obj in the sorted list objs, after the objects with an equal key
RECURSIVE Insert(_, _)
Insert(obj, objs) ==
  IF objs = <<>> THEN <<obj>>
  ELSE IF KeyLess(sortkey(obj), sortkey(Head(objs)))
       THEN <<obj>> \o objs
       ELSE <<Head(objs)>> \o Insert(obj, Tail(objs))

\* sorted(objs, key=icat.entity.Entity.__sortkey__): a stable sort
RECURSIVE SortObjs(_)
SortObjs(objs) ==
  IF objs = <<>> THEN <<>>
  ELSE Insert(objs[Len(objs)], SortObjs(SubSeq(objs, 1, Len(objs) - 1)))


(***************************************************************************)
(* XML elements: a tag, the XML attributes (a set of <<name, value>>       *)
(* pairs), the text (None when there is none) and the subelements.         *)
(***************************************************************************)
Elem(tag, att, text, sub) ==
  [tag |-> tag, att |-> att, text |-> text, sub |-> sub]

\* element.get(name); a missing attribute gives "", which the code's tests
\* (if key:, if ref:) take like None
Get(elem, name) ==
  IF \E p \in elem.att : p[1] = name
  THEN (CHOOSE p \in elem.att : p[1] = name)[2]
  ELSE ""

\* element.set(name, value)
Set(elem, name, value) ==
  [elem EXCEPT !.att = {p \in @ : p[1] # name} \cup {<<name, value>>}]

\* the text _entity2elem writes for the value of an instance attribute
ToText(v) ==
  CASE v.k = "bool"     -> (IF v.b THEN "true" ELSE "false")
    [] v.k = "int"      -> ToString(v.n)
    [] v.k = "datetime" -> (IF v.aware THEN v.iso \o "+00:00"
                                       ELSE v.iso \o "Z")
    [] OTHER            -> v.s

\* _entity2elem(obj, tag, keyindex).  The operators below are its steps;
\* acc is [ok, sub, keyindex]: whether no exception has been raised, the
\* subelements appended so far and the key index.

\* AttrElem, every value written as str(v)
AttrElemStr(attr, v, acc) ==
  IF attr = "id" \/ v = None THEN acc
  ELSE [acc EXCEPT !.sub = Append(@, Elem(attr, {}, S(Str(v)), <<>>))]

\* first loop: a subelement for each instance attribute that is set, but id
AttrElem(attr, v, acc) ==
  IF attr = "id" \/ v = None THEN acc
  ELSE [acc EXCEPT !.sub = Append(@, Elem(attr, {}, S(ToText(v)), <<>>))]

RECURSIVE AttrElems(_, _, _)
AttrElems(obj, attrs, acc) ==
  IF attrs = <<>> THEN acc
  ELSE AttrElems(obj, Tail(attrs),
                 AttrElem(Head(attrs), GetAttr(obj, Head(attrs)), acc))

\* second loop: a reference by key for each many-to-one relation that is set
RefElem(attr, r, acc) ==
  IF ~r.ok THEN [acc EXCEPT !.ok = FALSE, !.keyindex = r.keyindex]
  ELSE [acc EXCEPT !.keyindex = r.keyindex,
                   !.sub = Append(@, Elem(attr, {<<"ref", KeyStr(r.key)>>},
                                          None, <<>>))]

RelElem(attr, o, acc) ==
  IF o = None THEN acc
  ELSE RefElem(attr, getUniqueKey(o, acc.keyindex), acc)

RECURSIVE RelElems(_, _, _)
RelElems(obj, attrs, acc) ==
  IF attrs = <<>> \/ ~acc.ok THEN acc
  ELSE RelElems(obj, Tail(attrs),
                RelElem(Head(attrs), GetRel(obj, Head(attrs)), acc))

\* third loop: the children of each one-to-many relation, sorted, each
\* converted in turn and appended
RECURSIVE entity2elem(_, _, _)
RECURSIVE ChildElems(_, _, _)
RECURSIVE MRelElems(_, _, _)
\* ChildElem, the element of the child given an identifier of its own
ChildElemKeyed(r, acc) ==
  IF ~r.ok THEN [acc EXCEPT !.ok = FALSE, !.keyindex = r.keyindex]
  ELSE [acc EXCEPT !.keyindex = r.keyindex,
                   !.sub = Append(@, Set(r.elem, "id", r.elem.tag))]

ChildElem(r, acc) ==
  IF ~r.ok THEN [acc EXCEPT !.ok = FALSE, !.keyindex = r.keyindex]
  ELSE [acc EXCEPT !.keyindex = r.keyindex, !.sub = Append(@, r.elem)]

ChildElems(objs, attr, acc) ==
  IF objs = <<>> \/ ~acc.ok THEN acc
  ELSE ChildElems(Tail(objs), attr,
                  ChildElem(entity2elem(Head(objs), attr, acc.keyindex), acc))

\* MRelElems, the children written in the order the object holds them
MRelElemsAsHeld(obj, attrs, acc) ==
  IF attrs = <<>> \/ ~acc.ok THEN acc
  ELSE MRelElems(obj, Tail(attrs),
                 ChildElems(GetMRel(obj, Head(attrs)), Head(attrs), acc))

MRelElems(obj, attrs, acc) ==
  IF attrs = <<>> \/ ~acc.ok THEN acc
  ELSE MRelElems(obj, Tail(attrs),
                 ChildElems(SortObjs(GetMRel(obj, Head(attrs))), Head(attrs),
                            acc))

\* the element with its tag and subelements
ElemOf(tag, acc) ==
  [ok |-> acc.ok, elem |-> Elem(tag, {}, None, acc.sub),
   keyindex |-> acc.keyindex, obj |-> None]

entity2elem(obj, tag, keyindex) ==
  ElemOf(IF tag = "" THEN instancetype(obj.BeanName) ELSE tag,
         MRelElems(obj, Sorted(InstMRel(obj.BeanName)),
           RelElems(obj, Sorted(InstRel(obj.BeanName)),
             AttrElems(obj, Sorted(InstAttr(obj.BeanName)),
                       [ok |-> TRUE, sub |-> <<>>, keyindex |-> keyindex]))))

(***************************************************************************)
(* The content of the ICAT the writer dumps, and the sources a caller      *)
(* passes to the writer.                                                   *)
(***************************************************************************)
NoAttr == [x \in {} |-> None]
NoRel == [x \in {} |-> None]
NoMRel == [x \in {} |-> <<>>]

Fac1 == Entity("Facility", 11, [name |-> S("a"), daysUntilRelease |-> I(7)],
               NoRel, NoMRel)
Kw1 == Entity("Keyword", 13, [name |-> S("p")], NoRel, NoMRel)
Kw2 == Entity("Keyword", 14, [name |-> S("q")], NoRel, NoMRel)
Kw3 == Entity("Keyword", 15, [name |-> S("a")], NoRel, NoMRel)
\* the investigation holds its keywords in the order the server gave them
Inv1 == Entity("Investigation", 12,
               [name |-> S("x"),
                startDate |-> D("2020-01-01T00:00:00", FALSE)],
               [facility |-> Fac1], [keywords |-> <<Kw2, Kw3, Kw1>>])
\* the same investigation searched without INCLUDE: its facility is not set
Inv1Bare == Entity("Investigation", 12, [name |-> S("x")], NoRel, NoMRel)
Dc1 == Entity("DataCollection", 2, [doi |-> S("p")], NoRel, NoMRel)
Dc2 == Entity("DataCollection", 1, [doi |-> S("q")], NoRel, NoMRel)
Job1 == Entity("Job", 17, [arguments |-> S("b c")],
               [inputDataCollection |-> Dc1], NoMRel)

\* an investigation a caller holds that the ICAT does not: its keyword
\* refers to an investigation that was searched without its facility
KwLost == Entity("Keyword", 16, [name |-> S("q")],
                 [investigation |-> Entity("Investigation", 18,
                                           [name |-> S("p")], NoRel, NoMRel)],
                 NoMRel)
\* its facility is an object of its own with the name of Fac1
FacA == Entity("Facility", 5, [name |-> S("a")], NoRel, NoMRel)
Inv2 == Entity("Investigation", 19, [name |-> S("q")], [facility |-> FacA],
               [keywords |-> <<KwLost>>])

\* a data collection a caller holds with the jobs it is the input of, as a
\* search with INCLUDE returns it: the jobs do not have their relations set
Job2 == Entity("Job", 22, [arguments |-> S("p")], NoRel, NoMRel)
Job3 == Entity("Job", 21, [arguments |-> S("a")], NoRel, NoMRel)
Dc3 == Entity("DataCollection", 3, [doi |-> S("x")], NoRel,
              [jobsAsInput |-> <<Job2, Job3>>])

\* the same data collection searched without INCLUDE
Dc3Bare == Entity("DataCollection", 3, [doi |-> S("x")], NoRel, NoMRel)

Catalog == <<Fac1, Inv1, Dc1, Dc2, Job1>>

\* a source is a search expression (here: the name of a type, the related
\* objects included) or a list of entity objects
Query(t) == [kind |-> "query", type |-> t, objs |-> <<>>]
List(objs) == [kind |-> "list", type |-> "", objs |-> objs]

Sources == {Query("Facility"), Query("Investigation"),
            Query("DataCollection"), Query("Job"),
            List(<<Dc2, Dc1>>), List(<<Job1, Inv1Bare, Dc1>>),
            List(<<Job1, Inv2>>), List(<<Job1, Dc3>>),
            List(<<Dc3, Dc3Bare>>)}

\* the default of chunksize, and the page sizes a caller passes
DefaultChunkSize == 100
ChunkSizes == {1, DefaultChunkSize}

\* client.search(query) with LIMIT skip, count
Limit(all, skip, count) ==
  SubSeq(all, skip + 1,
         IF skip + count < Len(all) THEN skip + count ELSE Len(all))

search(catalog, query, skip, count) ==
  Limit(SelectSeq(catalog, LAMBDA o : o.BeanName = query.type), skip, count)

\* client.searchChunked(query, chunksize=chunksize): the objects, searched
\* in pages of chunksize
RECURSIVE searchChunked(_, _, _, _)
NextPages(page, catalog, query, skip, chunksize) ==
  IF page = <<>> THEN <<>>
  ELSE page \o searchChunked(catalog, query, skip + chunksize, chunksize)

searchChunked(catalog, query, skip, chunksize) ==
  NextPages(search(catalog, query, skip, chunksize), catalog, query, skip,
            chunksize)

(***************************************************************************)
(* The client's searches in the ICAT the objects are created in.           *)
(***************************************************************************)
\* an object as a search without INCLUDE returns it: no related objects
Bare(o) == [o EXCEPT !.rel = NoRel, !.mrel = NoMRel]

\* the object with the id in the store (the store holds it)
ById(st, id) == st[CHOOSE i \in 1..Len(st) : st[i].id = id]

\* an object of the store with the objects of its many-to-one relations
\* included, as far as the store holds them
RECURSIVE Included(_, _)
IncludedRel(o, st) ==
  IF o # None /\ (\E i \in 1..Len(st) : st[i].id = o.id)
  THEN Included(ById(st, o.id), st) ELSE o

Included(o, st) ==
  [o EXCEPT !.rel = [a \in DOMAIN o.rel |-> IncludedRel(o.rel[a], st)]]

\* the unique key of an object of the store
KeyInStore(o, st) == getUniqueKey(Included(o, st), EmptyIndex)

\* the objects of the store that have the unique key
WithKey(key, st) ==
  {i \in 1..Len(st) : KeyInStore(st[i], st).ok
                      /\ KeyStr(KeyInStore(st[i], st).key) = key}

\* the text of an attribute value in a search condition
CondText(v) == IF v = None THEN "" ELSE IF v.k = "str" THEN v.s ELSE ToText(v)

\* the objects of the store of a type that meet the conditions, a set of
\* pairs <<attribute, text>>
Matching(objtype, conds, st) ==
  {i \in 1..Len(st) :
     /\ st[i].BeanName = objtype
     /\ \A c \in conds : /\ c[1] \in InstAttr(objtype) \ {"id"}
                         /\ GetAttr(st[i], c[1]) # None
                         /\ CondText(GetAttr(st[i], c[1])) = c[2]}

\* the one object among those found, or a failure
TheOne(found, st, objindex) ==
  IF Cardinality(found) = 1
  THEN [ok |-> TRUE, obj |-> Bare(st[CHOOSE i \in found : TRUE]),
        objindex |-> objindex]
  ELSE [ok |-> FALSE, obj |-> None, objindex |-> objindex]

\* the object found remotely, entered in the index
Cached(key, r) ==
  IF r.ok THEN [r EXCEPT !.objindex = Put(@, key, r.obj)] ELSE r

\* client.searchUniqueKey(key, objindex): the object from the index, or on
\* a miss the one object of the ICAT that has the key, which is entered in
\* the index
searchUniqueKey(key, objindex, st) ==
  IF key \in DOMAIN objindex
  THEN [ok |-> TRUE, obj |-> objindex[key], objindex |-> objindex]
  ELSE Cached(key, TheOne(WithKey(key, st), st, objindex))

\* client.assertedSearch(query)[0]: the one object that meets the
\* conditions
assertedSearch(objtype, conds, objindex, st) ==
  TheOne(Matching(objtype, conds, st), st, objindex)

(***************************************************************************)
(* Reading: icat/dumpfile_xml.py                                           *)
(***************************************************************************)
\* searchByReference, a key looked up in the index only
searchByReferenceLocal(element, objtype, objindex, st) ==
  IF Get(element, "ref") # ""
  THEN (IF Get(element, "ref") \in DOMAIN objindex
        THEN [ok |-> TRUE, obj |-> objindex[Get(element, "ref")],
              objindex |-> objindex]
        ELSE [ok |-> FALSE, obj |-> None, objindex |-> objindex])
  ELSE assertedSearch(objtype, {p \in element.att : p[1] # "id"}, objindex,
                      st)

\* _searchByReference(client, element, objtype, objindex)
searchByReference(element, objtype, objindex, st) ==
  IF Get(element, "ref") # ""
  THEN searchUniqueKey(Get(element, "ref"), objindex, st)
  ELSE assertedSearch(objtype, {p \in element.att : p[1] # "id"}, objindex,
                      st)

\* obj.AttrAlias: the reduced schema has no attribute that was renamed
AttrAlias(t, attr) == attr

\* _elem2entity(client, insttypemap, element, objtype, objindex).  The
\* operators below are its steps; acc is [ok, err, obj, objindex], err the
\* exception raised when ok is FALSE.
RECURSIVE elem2entity(_, _, _, _)
RECURSIVE SubElems(_, _, _)

\* setattr(obj, attr, robj), r the result of _searchByReference
SetRel(attr, r, acc) ==
  IF ~r.ok THEN [acc EXCEPT !.ok = FALSE, !.err = "SearchResultError",
                            !.objindex = r.objindex]
  ELSE [acc EXCEPT !.obj.rel = Put(@, attr, r.obj),
                   !.objindex = r.objindex]

\* AddChild, the child put before the children read so far
AddChildFirst(attr, r, acc) ==
  IF ~r.ok THEN [acc EXCEPT !.ok = FALSE, !.err = r.err,
                            !.objindex = r.objindex]
  ELSE [acc EXCEPT !.obj.mrel = Put(@, attr, <<r.obj>>
                                               \o GetMRel(acc.obj, attr)),
                   !.objindex = r.objindex]

\* getattr(obj, attr).append(robj), r the result of _elem2entity
AddChild(attr, r, acc) ==
  IF ~r.ok THEN [acc EXCEPT !.ok = FALSE, !.err = r.err,
                            !.objindex = r.objindex]
  ELSE [acc EXCEPT !.obj.mrel = Put(@, attr, Append(GetMRel(acc.obj, attr),
                                                    r.obj)),
                   !.objindex = r.objindex]

\* SubElem, a subelement that is none of the three passed over
SubElemPassedOver(subelem, attr, acc, st) ==
  IF attr \in InstAttr(acc.obj.BeanName)
  THEN [acc EXCEPT !.obj.attr = Put(@, attr, subelem.text)]
  ELSE IF attr \in InstRel(acc.obj.BeanName)
  THEN SetRel(attr,
              searchByReference(subelem,
                                getAttrType(acc.obj.BeanName, attr),
                                acc.objindex, st),
              acc)
  ELSE IF attr \in InstMRel(acc.obj.BeanName)
  THEN AddChild(attr,
                elem2entity(subelem, getAttrType(acc.obj.BeanName, attr),
                            acc.objindex, st),
                acc)
  ELSE acc

\* the body of the loop over the subelements
SubElem(subelem, attr, acc, st) ==
  IF attr \in InstAttr(acc.obj.BeanName)
  THEN [acc EXCEPT !.obj.attr = Put(@, attr, subelem.text)]
  ELSE IF attr \in InstRel(acc.obj.BeanName)
  THEN SetRel(attr,
              searchByReference(subelem,
                                getAttrType(acc.obj.BeanName, attr),
                                acc.objindex, st),
              acc)
  ELSE IF attr \in InstMRel(acc.obj.BeanName)
  THEN AddChild(attr,
                elem2entity(subelem, getAttrType(acc.obj.BeanName, attr),
                            acc.objindex, st),
                acc)
  ELSE [acc EXCEPT !.ok = FALSE, !.err = "ValueError"]

SubElems(subs, acc, st) ==
  IF subs = <<>> \/ ~acc.ok THEN acc
  ELSE SubElems(Tail(subs),
                SubElem(Head(subs),
                        AttrAlias(acc.obj.BeanName, Head(subs).tag), acc, st),
                st)

elem2entity(element, objtype, objindex, st) ==
  SubElems(element.sub,
           [ok |-> TRUE, err |-> "",
            obj |-> Entity(objtype, 0, NoAttr, NoRel, NoMRel),
            objindex |-> objindex],
           st)

\* the tag of a reference to an object of type t that exists already
RefTag(t) == instancetype(t) \o "Ref"

\* tag.endswith("Ref"), for the tags of the model
EndsWithRef(tag) == (\E t \in Types : tag = RefTag(t)) \/ tag = "bogusRef"

\* tag[0:-3], for the tags of the model
StripRef(tag) ==
  IF \E t \in Types : tag = RefTag(t)
  THEN instancetype(CHOOSE t \in Types : tag = RefTag(t))
  ELSE "bogus"

\* tag in client.typemap
InTypemap(tag) == \E t \in Types : instancetype(t) = tag

\* client.typemap[tag].BeanName
BeanName(tag) == CHOOSE t \in Types : instancetype(t) = tag

(***************************************************************************)
(* The writer.                                                             *)
(***************************************************************************)
VARIABLES
  icat,         \* the objects of the ICAT the writer's client searches
  wpc,          \* where the caller of the writer is: "init" (constructed),
                \* "open" (in the with block), "raised" (an exception is
                \* leaving the with block), "closed", or "failed" (an
                \* exception has left __enter__)
  idcounter,    \* DumpFileWriter.idcounter
  data,         \* XMLDumpFileWriter.data: the records of the current chunk
  outfile,      \* what has been written to the output, in order
  keyindex,     \* the key index the last writedata or writeobjs call used
  callerindex,  \* the key index the caller keeps across calls
  calls,        \* the number of writedata and writeobjs calls so far
  issued,       \* history: the generated keys, in the order of issue
  wrote,        \* history: the objects whose records were appended to a
                \* chunk, in order, each with the key index it was
                \* written with
  tried,        \* history: the objects the loop of writeobjs has taken
                \* up, in order, each with its key and what the body of
                \* the loop left
  wcalls,       \* history: the writedata and writeobjs calls, in order,
                \* each with its sources and the number of records it
                \* appended
  wstream       \* XMLDumpFileWriter.outfile, the handle: "open" or
                \* "closed"

wvars == <<icat, wpc, idcounter, data, outfile, keyindex, callerindex, calls,
           issued, wrote, tried, wcalls, wstream>>

(***************************************************************************)
(* The reader, its caller and the ICAT the caller creates the objects in.  *)
(***************************************************************************)
VARIABLES
  rpc,          \* where getobjs is: "init" (not called), "getdata" (at the
                \* head of the loop over the chunks), "elem" (at the head
                \* of the loop over the elements of a chunk), "yielded"
                \* (suspended at the yield), "resumed" (before
                \* truncateRelations), "truncated" (before the entry in
                \* the index), "done", "raised" (an exception left it)
  infile,       \* the content of the file read
  filepos,      \* how many items of the file the parser has passed
  chunk,        \* the elements of the chunk getdata has yielded
  chunkno,      \* the number of chunks getdata has yielded
  elemno,       \* the position in the chunk of the element at hand
  resetindex,   \* whether getobjs keeps an internal index
  objindex,     \* the index of getobjs
  cur,          \* the pair key, obj of getobjs_from_data
  yielded,      \* history: the objects yielded, as the caller got them
  store,        \* the objects of the ICAT the caller creates the objects in
  registered,   \* history: the pairs <<chunk number, key>> entered in the
                \* index
  rerr,         \* the exception that left getobjs, "" when none did
  rstream       \* XMLDumpFileReader.infile, the handle: "none" (no
                \* reader yet), "open" or "closed"

rvars == <<rpc, infile, filepos, chunk, chunkno, elemno, resetindex,
           objindex, cur, yielded, store, registered, rerr, rstream>>

(***************************************************************************)
(* The register of backends and the calls of open_dumpfile.                *)
(***************************************************************************)
VARIABLES
  Backends,     \* icat.dumpfile.Backends: the format names registered
  opened        \* history: the last call of open_dumpfile and its outcome

ovars == <<Backends, opened>>

\* the state of the script wipeicat.py and of the IDS client
VARIABLES
  wipc,         \* where the script is: "none" (not run), "start", "facility"
                \* (before the second step), "others" (in the third step),
                \* "authz" (in the last step), "end", or "failed" (an
                \* exception has ended it)
  content,      \* the number of objects of each type in the ICAT
  typeno,          \* the place in the list of types of the loop at hand
  completed,    \* the types deletetype has returned for
  removed,      \* history: the deleteMany calls of deletetype that deleted
                \* objects, in order, each with the types completed then
  server,       \* the IDS server: what it answers to each call
  got,          \* history: the outcome of IDSClient.getApiVersion
  hasids,       \* client.ids: whether the client has an IDS
  oldids,       \* client.ids.apiversion < '1.3.0'
  dfs,          \* the Datafiles with a location, in the order a search
                \* returns them: of each its status in the IDS, "ONLINE",
                \* "ARCHIVED" or "RESTORING" (a restore is requested)
  skip,         \* getDfSelections: the offset of the next search
  requests,     \* history: the deleteData and restore requests of the
                \* sweep, in order
  lastsweep,    \* history: the requests of the sweep before
  examined      \* history: the number of Datafiles the generator
                \* running has got from its searches

\* the state of the first step of wipeicat.py
svars == <<hasids, oldids, dfs, skip, requests, lastsweep, examined>>

xvars == <<wipc, content, typeno, completed, removed, server, got, svars>>

\* the state of the IDS client module icat/ids.py
VARIABLES
  defaults,     \* IDSRequest.__init__: the dict that is the default value
                \* of the argument headers
  built,        \* history: the requests constructed, in order
  selection,    \* a DataSelection: its lists invIds, dsIds and dfIds
  extended,     \* history: the calls of extend on it, each with the
                \* selection before, the argument and the exception raised
  ppc,          \* where IDSClient.put is: "idle" (not called), "sending"
                \* (the request is open and the reader is iterated), "done"
  inputfile,    \* ChunkedFileReader.inputfile: the bytes not yet read
  readercrc,    \* ChunkedFileReader.crc32
  chunksread,   \* history: the chunks read from the stream, in order
  received,     \* the bytes the server has got
  sent,         \* history: the requests opened by put
  putres,       \* history: the outcome of put
  dumpindex,    \* icatdump.py: the global keyindex
  dumped        \* history: the calls of getobjs of icatdump.py, each with
                \* its arguments, the objects found and the dict returned

pvars == <<ppc, inputfile, readercrc, chunksread, received, sent, putres>>

dvars == <<dumpindex, dumped>>

cvars == <<defaults, built, selection, extended, pvars, dvars>>

vars == <<wvars, rvars, ovars, xvars, cvars>>

XmlOpen == Elem("<icatdata>", {}, None, <<>>)
XmlClose == Elem("</icatdata>", {}, None, <<>>)
HeadElem == Elem("head", {}, None,
                 <<Elem("date", {}, None, <<>>),
                   Elem("service", {}, None, <<>>),
                   Elem("apiversion", {}, None, <<>>),
                   Elem("generator", {}, None, <<>>)>>)

\* the writer's state while a call runs
WState(ic, ki, d, iss, wr, ok) ==
  [idcounter |-> ic, keyindex |-> ki, data |-> d, issued |-> iss,
   wrote |-> wr, ok |-> ok, tried |-> <<>>]

\* XMLDumpFileWriter.writeobj(key, obj, keyindex), r the result of
\* _entity2elem
AppendElem(st, key, r) ==
  IF ~r.ok THEN [st EXCEPT !.keyindex = r.keyindex, !.ok = FALSE]
  ELSE [st EXCEPT !.keyindex = r.keyindex,
                  !.data = Append(@, Set(r.elem, "id", KeyStr(key))),
                  !.wrote = Append(@, r.obj)]

writeobj(st, key, obj) ==
  AppendElem(st, key, [entity2elem(obj, "", st.keyindex) EXCEPT !.obj = obj])

\* GenericKey, the counter of the type left as it was
GenericKeyNoIncrement(st, obj, n) ==
  [st EXCEPT
     !.keyindex = Put(@, <<obj.BeanName, obj.id>>,
                      Key(obj.BeanName, Fmt08(n))),
     !.issued = Append(@, [t |-> obj.BeanName, id |-> obj.id, n |-> n,
                           key |-> KeyStr(Key(obj.BeanName, Fmt08(n)))])]

\* GenericKey, the key not entered in the key index
GenericKeyNotIndexed(st, obj, n) ==
  [st EXCEPT
     !.idcounter = Put(@, obj.BeanName, n),
     !.issued = Append(@, [t |-> obj.BeanName, id |-> obj.id, n |-> n,
                           key |-> KeyStr(Key(obj.BeanName, Fmt08(n)))])]

\* GenericKey, the entry of the key index one number ahead of the key
GenericKeyIndexedAhead(st, obj, n) ==
  [st EXCEPT
     !.idcounter = Put(@, obj.BeanName, n),
     !.keyindex = Put(@, <<obj.BeanName, obj.id>>,
                      Key(obj.BeanName, Fmt08(n + 1))),
     !.issued = Append(@, [t |-> obj.BeanName, id |-> obj.id, n |-> n,
                           key |-> KeyStr(Key(obj.BeanName, Fmt08(n)))])]

\* the generic numbered key of an object of a type with 'id' in its
\* constraint: n is the counter of the type, incremented
GenericKey(st, obj, n) ==
  [st EXCEPT
     !.idcounter = Put(@, obj.BeanName, n),
     !.keyindex = Put(@, <<obj.BeanName, obj.id>>,
                      Key(obj.BeanName, Fmt08(n))),
     !.issued = Append(@, [t |-> obj.BeanName, id |-> obj.id, n |-> n,
                           key |-> KeyStr(Key(obj.BeanName, Fmt08(n)))])]

\* the counter of type t
Counter(ic, t) == IF t \in DOMAIN ic THEN ic[t] ELSE 0

\* UniqueKey, a key made of the id when the derivation fails
UniqueKeyOfId(st, obj, r) ==
  writeobj([st EXCEPT !.keyindex = r.keyindex],
           IF r.ok THEN r.key
           ELSE Key(obj.BeanName, "id-" \o ToString(obj.id)), obj)

\* the key of an object of another type, r the result of getUniqueKey
UniqueKey(st, obj, r) ==
  IF ~r.ok THEN [st EXCEPT !.keyindex = r.keyindex, !.ok = FALSE]
  ELSE writeobj([st EXCEPT !.keyindex = r.keyindex], r.key, obj)

\* the body of the loop of DumpFileWriter.writeobjs, for one object
WriteOne(st, obj, n) ==
  IF HasIdConstraint(obj.BeanName)
  THEN writeobj(GenericKey(st, obj, n), Key(obj.BeanName, Fmt08(n)), obj)
  ELSE UniqueKey(st, obj, getUniqueKey(obj, st.keyindex))

\* the value of k in the body of the loop for obj, the writer in state st:
\* [ok, key]
KeyOf(st, obj) ==
  IF HasIdConstraint(obj.BeanName)
  THEN [ok |-> TRUE,
        key |-> Key(obj.BeanName,
                    Fmt08(Counter(st.idcounter, obj.BeanName) + 1))]
  ELSE getUniqueKey(obj, st.keyindex)

\* the entry of the key index for the object, as text, "" when it has none
IndexedAs(index, obj) ==
  IF <<obj.BeanName, obj.id>> \in DOMAIN index
  THEN KeyStr(index[<<obj.BeanName, obj.id>>]) ELSE ""

\* history: what the body of the loop did for obj; old is the state of the
\* writer before it, r the value of k, st the state after it.  rec is the
\* record appended, was and indexed the entry of the key index for the
\* object before and after, before and after the counters before and
\* after, old and index the key index before and after.
Tried(old, obj, r, st) ==
  [obj |-> obj, ok |-> st.ok,
   k |-> IF r.ok THEN KeyStr(r.key) ELSE "",
   rec |-> IF st.ok THEN st.data[Len(st.data)] ELSE None,
   was |-> IndexedAs(old.keyindex, obj),
   indexed |-> IndexedAs(st.keyindex, obj),
   before |-> old.idcounter,
   after |-> st.idcounter,
   old |-> old.keyindex,
   index |-> st.keyindex]

Noted(old, obj, st) ==
  [st EXCEPT !.tried = Append(@, Tried(old, obj, KeyOf(old, obj), st))]

\* the loop of DumpFileWriter.writeobjs over the objects lo to hi of
\* objs, in order, until one fails: the first half of them, then the rest
RECURSIVE WriteRange(_, _, _, _)
WriteRange(st, objs, lo, hi) ==
  IF lo > hi \/ ~st.ok THEN st
  ELSE IF lo = hi
  THEN Noted(st, objs[lo],
             WriteOne(st, objs[lo],
                      Counter(st.idcounter, objs[lo].BeanName) + 1))
  ELSE WriteRange(WriteRange(st, objs, lo, (lo + hi) \div 2), objs,
                  (lo + hi) \div 2 + 1, hi)

WriteAll(st, objs) == WriteRange(st, objs, 1, Len(objs))

\* writeobjs, the search not continued after its first page
writeobjsFirstPage(st, objs, chunksize) ==
  WriteAll(st, IF objs.kind = "query" THEN search(icat, objs, 0, chunksize)
               ELSE SortObjs(objs.objs))

\* writeobjs, a list written in the order the caller holds it in
writeobjsUnsorted(st, objs, chunksize) ==
  WriteAll(st, IF objs.kind = "query"
               THEN searchChunked(icat, objs, 0, chunksize)
               ELSE objs.objs)

\* DumpFileWriter.writeobjs(objs, keyindex, chunksize)
writeobjs(st, objs, chunksize) ==
  WriteAll(st, IF objs.kind = "query"
               THEN searchChunked(icat, objs, 0, chunksize)
               ELSE SortObjs(objs.objs))

\* StartDataOut, the chunk not written
StartDataOutLost(d, out) == out

\* StartDataOut, the chunk written whether it holds a record or not
StartDataOutAlways(d, out) == Append(out, Elem("data", {}, None, d))

\* XMLDumpFileWriter.startdata: what it writes to the output
StartDataOut(d, out) ==
  IF Len(d) > 0 THEN Append(out, Elem("data", {}, None, d)) ELSE out

\* WriteSources, the loop over the sources left after the first of them
WriteSourcesFirst(st, srcs, chunksize) ==
  IF srcs = <<>> THEN st ELSE writeobjs(st, Head(srcs), chunksize)

RECURSIVE WriteSources(_, _, _)
WriteSources(st, srcs, chunksize) ==
  IF srcs = <<>> \/ ~st.ok THEN st
  ELSE WriteSources(writeobjs(st, Head(srcs), chunksize), Tail(srcs),
                    chunksize)

\* XMLDumpFileWriter.head: its two writes to the output
HeadWrites == <<XmlOpen, HeadElem>>

\* DumpFileWriter.__enter__: head()
Enter ==
  /\ wpc = "init"
  /\ outfile' = outfile \o HeadWrites
  /\ wpc' = "open"
  /\ UNCHANGED <<icat, idcounter, data, keyindex, callerindex, calls,
                 issued, wrote, tried, wcalls, wstream>>
  /\ UNCHANGED <<rvars, ovars, xvars, cvars>>

\* DumpFileWriter.__enter__ when head() raises after n of its writes: the
\* with statement does not call __exit__, the exception leaves it
EnterFailed(n) ==
  /\ wpc = "init"
  /\ outfile' = outfile \o SubSeq(HeadWrites, 1, n)
  /\ wpc' = "failed"
  /\ UNCHANGED <<icat, idcounter, data, keyindex, callerindex, calls,
                 issued, wrote, tried, wcalls, wstream>>
  /\ UNCHANGED <<rvars, ovars, xvars, cvars>>

\* history: a call, of writedata or of writeobjs, for the sources srcs,
\* that appended n records
Called(writedata, srcs, n) ==
  [writedata |-> writedata, srcs |-> srcs, n |-> n]

\* the variables a writedata or writeobjs call leaves, st the state at
\* its end
Returned(st, own) ==
  /\ idcounter' = st.idcounter
  /\ data' = st.data
  /\ keyindex' = st.keyindex
  /\ callerindex' = IF own THEN st.keyindex ELSE callerindex
  /\ issued' = st.issued
  /\ wrote' = st.wrote
  /\ tried' = tried \o st.tried
  /\ wpc' = IF st.ok THEN "open" ELSE "raised"

\* WriteData, the counters starting anew with the chunk
WriteDataResetCounters(srcs, own, chunksize) ==
  /\ wpc = "open"
  /\ calls < MaxCalls
  /\ outfile' = StartDataOut(data, outfile)
  /\ Returned(WriteSources(WState([x \in {} |-> 0],
                                  IF own THEN callerindex ELSE EmptyIndex,
                                  <<>>, issued, wrote, TRUE),
                           srcs, chunksize), own)
  /\ calls' = calls + 1
  /\ wcalls' = Append(wcalls, Called(TRUE, srcs, Len(data')))
  /\ UNCHANGED <<icat, wstream>>
  /\ UNCHANGED <<rvars, ovars, xvars, cvars>>

\* WriteData, the internal key index kept from one call to the next
WriteDataKeptIndex(srcs, own, chunksize) ==
  /\ wpc = "open"
  /\ calls < MaxCalls
  /\ outfile' = StartDataOut(data, outfile)
  /\ Returned(WriteSources(WState(idcounter,
                                  IF own THEN callerindex ELSE keyindex,
                                  <<>>, issued, wrote, TRUE),
                           srcs, chunksize), own)
  /\ calls' = calls + 1
  /\ wcalls' = Append(wcalls, Called(TRUE, srcs, Len(data')))
  /\ UNCHANGED <<icat, wstream>>
  /\ UNCHANGED <<rvars, ovars, xvars, cvars>>

\* DumpFileWriter.writedata(objs, keyindex, chunksize); own tells whether
\* the caller passes its key index
WriteData(srcs, own, chunksize) ==
  /\ wpc = "open"
  /\ calls < MaxCalls
  /\ outfile' = StartDataOut(data, outfile)
  /\ Returned(WriteSources(WState(idcounter,
                                  IF own THEN callerindex ELSE EmptyIndex,
                                  <<>>, issued, wrote, TRUE),
                           srcs, chunksize), own)
  /\ calls' = calls + 1
  /\ wcalls' = Append(wcalls, Called(TRUE, srcs, Len(data')))
  /\ UNCHANGED <<icat, wstream>>
  /\ UNCHANGED <<rvars, ovars, xvars, cvars>>

\* a call of DumpFileWriter.writeobjs by the caller, with its key index
WriteObjs(src, chunksize) ==
  /\ wpc = "open"
  /\ calls < MaxCalls
  /\ Returned(writeobjs(WState(idcounter, callerindex, data, issued, wrote,
                               TRUE),
                        src, chunksize), TRUE)
  /\ calls' = calls + 1
  /\ wcalls' = Append(wcalls, Called(FALSE, <<src>>, Len(data') - Len(data)))
  /\ UNCHANGED <<icat, outfile, wstream>>
  /\ UNCHANGED <<rvars, ovars, xvars, cvars>>

\* ExitOk, the header written again in place of the footer
ExitOkHeader ==
  /\ wpc = "open"
  /\ outfile' = Append(StartDataOut(data, outfile), XmlOpen)
  /\ data' = <<>>
  /\ wstream' = "closed"
  /\ wpc' = "closed"
  /\ UNCHANGED <<icat, idcounter, keyindex, callerindex, calls, issued,
                 wrote, tried, wcalls>>
  /\ UNCHANGED <<rvars, ovars, xvars, cvars>>

\* DumpFileWriter.__exit__ without an exception: finalize(), which closes
\* the output, and close
ExitOk ==
  /\ wpc = "open"
  /\ outfile' = Append(StartDataOut(data, outfile), XmlClose)
  /\ data' = <<>>
  /\ wstream' = "closed"
  /\ wpc' = "closed"
  /\ UNCHANGED <<icat, idcounter, keyindex, callerindex, calls, issued,
                 wrote, tried, wcalls>>
  /\ UNCHANGED <<rvars, ovars, xvars, cvars>>

\* ExitRaised, the chunk in progress flushed as finalize would
ExitRaisedFlushed ==
  /\ wpc = "raised"
  /\ outfile' = StartDataOut(data, outfile)
  /\ wstream' = "closed"
  /\ wpc' = "closed"
  /\ UNCHANGED <<icat, idcounter, data, keyindex, callerindex, calls,
                 issued, wrote, tried, wcalls>>
  /\ UNCHANGED <<rvars, ovars, xvars, cvars>>

\* DumpFileWriter.__exit__ with an exception: close only
ExitRaised ==
  /\ wpc = "raised"
  /\ wstream' = "closed"
  /\ wpc' = "closed"
  /\ UNCHANGED <<icat, idcounter, data, outfile, keyindex, callerindex,
                 calls, issued, wrote, tried, wcalls>>
  /\ UNCHANGED <<rvars, ovars, xvars, cvars>>

\* the lists of sources a caller passes to writedata
SourceLists == {<<s>> : s \in Sources}
                 \cup {<<Query("DataCollection"), Query("Job")>>,
                       <<Query("Facility"), Query("Investigation")>>}


(***************************************************************************)
(* The reader: DumpFileReader.getobjs over XMLDumpFileReader.getdata and   *)
(* XMLDumpFileReader.getobjs_from_data, and the caller of getobjs.         *)
(***************************************************************************)
EmptyObjIndex == [x \in {} |-> None]
NoCur == [key |-> "", obj |-> None]

\* the keys whose entry in the index new is not the entry in old
Entered(old, new) ==
  {key \in DOMAIN new : key \notin DOMAIN old \/ old[key] # new[key]}

\* the positions after pos of the data elements of the file
DataAfter(file, pos) == {i \in pos + 1..Len(file) : file[i].tag = "data"}

\* the parser reaches the end of a document that is complete
WellFormed(file) ==
  /\ Len(file) >= 2
  /\ file[1] = XmlOpen
  /\ file[Len(file)] = XmlClose

\* the caller calls getobjs(objindex) and asks for the first object; own
\* tells whether it passes its index
GetObjs(own) ==
  /\ rpc = "init"
  /\ infile # <<>>
  /\ resetindex' = ~own
  /\ objindex' = IF own THEN objindex ELSE EmptyObjIndex
  /\ rpc' = "getdata"
  /\ UNCHANGED <<infile, filepos, chunk, chunkno, elemno, cur, yielded,
                 store, registered, rerr, rstream>>
  /\ UNCHANGED <<wvars, ovars, xvars, cvars>>

\* StartIndex, the index kept over the chunks
StartIndexKept(reset, index) == index

\* StartIndex, the index cleared whoever owns it
StartIndexCleared(reset, index) == EmptyObjIndex

\* getobjs: the index at the start of a chunk
StartIndex(reset, index) == IF reset THEN EmptyObjIndex ELSE index

\* getdata yields the next chunk, getobjs starts on it
GetData ==
  /\ rpc = "getdata"
  /\ DataAfter(infile, filepos) # {}
  /\ LET i == CHOOSE i \in DataAfter(infile, filepos) :
                \A j \in DataAfter(infile, filepos) : i <= j
     IN /\ filepos' = i
        /\ chunk' = infile[i].sub
  /\ chunkno' = chunkno + 1
  /\ elemno' = 1
  /\ objindex' = StartIndex(resetindex, objindex)
  /\ rpc' = "elem"
  /\ UNCHANGED <<infile, resetindex, cur, yielded, store, registered, rerr,
                 rstream>>
  /\ UNCHANGED <<wvars, ovars, xvars, cvars>>

\* getdata is exhausted: getobjs ends, or the parser raises on a document
\* that is cut short
EndData ==
  /\ rpc = "getdata"
  /\ DataAfter(infile, filepos) = {}
  /\ filepos' = Len(infile)
  /\ rpc' = IF WellFormed(infile) THEN "done" ELSE "raised"
  /\ rerr' = IF WellFormed(infile) THEN rerr ELSE "XMLSyntaxError"
  /\ UNCHANGED <<infile, chunk, chunkno, elemno, resetindex, objindex, cur,
                 yielded, store, registered, rstream>>
  /\ UNCHANGED <<wvars, ovars, xvars, cvars>>

\* EndChunk, the chunk not cleared
EndChunkKept ==
  /\ rpc = "elem"
  /\ elemno > Len(chunk)
  /\ rpc' = "getdata"
  /\ UNCHANGED <<infile, filepos, chunk, chunkno, elemno, resetindex,
                 objindex, cur, yielded, store, registered, rerr, rstream>>
  /\ UNCHANGED <<wvars, ovars, xvars, cvars>>

\* getobjs_from_data is exhausted: getdata clears the chunk
EndChunk ==
  /\ rpc = "elem"
  /\ elemno > Len(chunk)
  /\ chunk' = <<>>
  /\ rpc' = "getdata"
  /\ UNCHANGED <<infile, filepos, chunkno, elemno, resetindex, objindex,
                 cur, yielded, store, registered, rerr, rstream>>
  /\ UNCHANGED <<wvars, ovars, xvars, cvars>>

\* RefDone, the object found not entered in the index
RefDoneNotIndexed(key, r) ==
  /\ objindex' = r.objindex
  /\ rpc' = IF r.ok THEN "elem" ELSE "raised"
  /\ rerr' = IF r.ok THEN rerr ELSE "SearchResultError"
  /\ elemno' = IF r.ok THEN elemno + 1 ELSE elemno

\* getobjs_from_data, a reference to an object that exists already; r is
\* the result of _searchByReference
RefDone(key, r) ==
  /\ objindex' = IF r.ok THEN Put(r.objindex, key, r.obj) ELSE r.objindex
  /\ rpc' = IF r.ok THEN "elem" ELSE "raised"
  /\ rerr' = IF r.ok THEN rerr ELSE "SearchResultError"
  /\ elemno' = IF r.ok THEN elemno + 1 ELSE elemno

\* the type of the object a Ref element refers to
RefType(tag) == BeanName(StripRef(tag))

ReadRef ==
  /\ rpc = "elem"
  /\ elemno <= Len(chunk)
  /\ EndsWithRef(chunk[elemno].tag)
  /\ IF Get(chunk[elemno], "id") = ""
     THEN /\ elemno' = elemno + 1
          /\ UNCHANGED <<rpc, rerr, objindex>>
     ELSE IF ~InTypemap(StripRef(chunk[elemno].tag))
     THEN /\ rpc' = "raised"
          /\ rerr' = "KeyError"
          /\ UNCHANGED <<elemno, objindex>>
     ELSE RefDone(Get(chunk[elemno], "id"),
                  searchByReference(chunk[elemno],
                                    RefType(chunk[elemno].tag),
                                    objindex, store))
  /\ registered' = registered
                     \cup {<<chunkno, key>> : key \in Entered(objindex,
                                                              objindex')}
  /\ UNCHANGED <<infile, filepos, chunk, chunkno, resetindex, cur, yielded,
                 store, rstream>>
  /\ UNCHANGED <<wvars, ovars, xvars, cvars>>

\* ObjDone, the object of an element that failed entered in the index
ObjDoneIndexed(key, r) ==
  /\ objindex' = IF r.ok THEN r.objindex ELSE Put(r.objindex, key, r.obj)
  /\ rpc' = IF r.ok THEN "yielded" ELSE "raised"
  /\ rerr' = IF r.ok THEN rerr ELSE r.err
  /\ cur' = IF r.ok THEN [key |-> key, obj |-> r.obj] ELSE cur
  /\ yielded' = IF r.ok THEN Append(yielded, [key |-> key, obj |-> r.obj])
                ELSE yielded

\* ObjDone, the object yielded as far as it was read when the error came
ObjDoneYielded(key, r) ==
  /\ objindex' = r.objindex
  /\ rpc' = "yielded"
  /\ rerr' = rerr
  /\ cur' = [key |-> key, obj |-> r.obj]
  /\ yielded' = Append(yielded, [key |-> key, obj |-> r.obj])

\* getobjs_from_data, any other element; r is the result of _elem2entity
ObjDone(key, r) ==
  /\ objindex' = r.objindex
  /\ rpc' = IF r.ok THEN "yielded" ELSE "raised"
  /\ rerr' = IF r.ok THEN rerr ELSE r.err
  /\ cur' = IF r.ok THEN [key |-> key, obj |-> r.obj] ELSE cur
  /\ yielded' = IF r.ok THEN Append(yielded, [key |-> key, obj |-> r.obj])
                ELSE yielded

ReadObj ==
  /\ rpc = "elem"
  /\ elemno <= Len(chunk)
  /\ ~EndsWithRef(chunk[elemno].tag)
  /\ IF ~InTypemap(chunk[elemno].tag)
     THEN /\ rpc' = "raised"
          /\ rerr' = "KeyError"
          /\ UNCHANGED <<objindex, cur, yielded>>
     ELSE ObjDone(Get(chunk[elemno], "id"),
                  elem2entity(chunk[elemno], BeanName(chunk[elemno].tag),
                              objindex, store))
  /\ registered' = registered
                     \cup {<<chunkno, key>> : key \in Entered(objindex,
                                                              objindex')}
  /\ UNCHANGED <<infile, filepos, chunk, chunkno, elemno, resetindex, store,
                 rstream>>
  /\ UNCHANGED <<wvars, ovars, xvars, cvars>>

\* the ICAT refuses an object of a type with a uniqueness constraint when
\* it holds an object with the same key
Exists(obj, st) ==
  /\ ~HasIdConstraint(obj.BeanName)
  /\ KeyInStore(obj, st).ok
  /\ WithKey(KeyStr(KeyInStore(obj, st).key), st) # {}

\* obj.create() by the caller, which then asks for the next object; the
\* object gets its id
Create ==
  /\ rpc = "yielded"
  /\ IF Exists(cur.obj, store)
     THEN /\ rpc' = "aborted"
          /\ UNCHANGED <<cur, store>>
     ELSE /\ rpc' = "resumed"
          /\ cur' = [cur EXCEPT !.obj.id = Len(store) + 1]
          /\ store' = Append(store, [cur.obj EXCEPT !.id = Len(store) + 1])
  /\ UNCHANGED <<infile, filepos, chunk, chunkno, elemno, resetindex,
                 objindex, yielded, registered, rerr, rstream>>
  /\ UNCHANGED <<wvars, ovars, xvars, cvars>>

\* Entity.truncateRelations(): the object without its related objects
truncateRelations(obj) == [obj EXCEPT !.rel = NoRel, !.mrel = NoMRel]

\* Truncate, the relations of the object left as they are
TruncateSkipped ==
  /\ rpc = "resumed"
  /\ rpc' = "truncated"
  /\ UNCHANGED <<infile, filepos, chunk, chunkno, elemno, resetindex,
                 objindex, cur, yielded, store, registered, rerr, rstream>>
  /\ UNCHANGED <<wvars, ovars, xvars, cvars>>

\* getobjs after the yield: obj.truncateRelations()
Truncate ==
  /\ rpc = "resumed"
  /\ cur' = [cur EXCEPT !.obj = truncateRelations(@)]
  /\ rpc' = "truncated"
  /\ UNCHANGED <<infile, filepos, chunk, chunkno, elemno, resetindex,
                 objindex, yielded, store, registered, rerr, rstream>>
  /\ UNCHANGED <<wvars, ovars, xvars, cvars>>

\* getobjs after the yield: if key: objindex[key] = obj
IndexObj(index, key, obj) == IF key # "" THEN Put(index, key, obj) ELSE index

Register ==
  /\ rpc = "truncated"
  /\ objindex' = IndexObj(objindex, cur.key, cur.obj)
  /\ registered' = registered
                     \cup {<<chunkno, key>> : key \in Entered(objindex,
                                                              objindex')}
  /\ elemno' = elemno + 1
  /\ rpc' = "elem"
  /\ UNCHANGED <<infile, filepos, chunk, chunkno, resetindex, cur, yielded,
                 store, rerr, rstream>>
  /\ UNCHANGED <<wvars, ovars, xvars, cvars>>

\* the states in which the caller's loop over getobjs has ended: getobjs
\* is exhausted, an exception left it, or create raised in the loop
ReaderEnded == rpc \in {"done", "raised", "aborted"}

\* DumpFileReader.__exit__, with or without an exception: close
ReaderExit ==
  /\ ReaderEnded
  /\ rstream = "open"
  /\ rstream' = "closed"
  /\ UNCHANGED <<rpc, infile, filepos, chunk, chunkno, elemno, resetindex,
                 objindex, cur, yielded, store, registered, rerr>>
  /\ UNCHANGED <<wvars, ovars, xvars, cvars>>

(***************************************************************************)
(* A chunk read at once: getobjs, with a caller that creates each object   *)
(* it gets, over the records of one chunk.  acc is [ok, index, store].     *)
(***************************************************************************)
\* the object created, truncated and entered in the index
Created(acc, key, obj, index) ==
  [ok |-> TRUE, store |-> Append(acc.store, obj),
   index |-> IndexObj(index, key, truncateRelations(obj))]

\* one record, r the result of _elem2entity
ReadRecord(acc, key, r) ==
  IF ~r.ok \/ Exists(r.obj, acc.store)
  THEN [acc EXCEPT !.ok = FALSE, !.index = r.objindex]
  ELSE Created(acc, key, [r.obj EXCEPT !.id = Len(acc.store) + 1],
               r.objindex)

RECURSIVE ReadRecords(_, _)
ReadRecords(acc, elems) ==
  IF elems = <<>> \/ ~acc.ok THEN acc
  ELSE ReadRecords(ReadRecord(acc, Get(Head(elems), "id"),
                              elem2entity(Head(elems),
                                          BeanName(Head(elems).tag),
                                          acc.index, acc.store)),
                   Tail(elems))

\* the records of the one chunk a new writer makes of the objects
OneChunk(objs) ==
  WriteAll(WState([x \in {} |-> 0], EmptyIndex, <<>>, <<>>, <<>>, TRUE),
           objs).data

\* the objects written as one chunk and read back into an empty ICAT
OneChunkRead(objs) ==
  ReadRecords([ok |-> TRUE, index |-> EmptyObjIndex, store |-> <<>>],
              OneChunk(objs))

\* the file a writer has closed is read into an empty ICAT
OpenRead ==
  /\ wpc = "closed"
  /\ calls <= MaxFileCalls
  /\ rpc = "init"
  /\ infile = <<>>
  /\ infile' = outfile
  /\ rstream' = "open"
  /\ UNCHANGED <<rpc, filepos, chunk, chunkno, elemno, resetindex, objindex,
                 cur, yielded, store, registered, rerr>>
  /\ UNCHANGED <<wvars, ovars, xvars, cvars>>

(***************************************************************************)
(* doc/examples/wipeicat.py: the script that deletes all content from an   *)
(* ICAT.  The ICAT is the number of objects it holds of each entity type.  *)
(***************************************************************************)
\* Limit of the number of objects to be searched at a time.
searchlimit == 200

\* Entity types needed for access permissions.
authztables == <<"Grouping", "Rule", "User", "UserGroup">>

\* client.getEntityNames(): the entity types of the ICAT
getEntityNames ==
  <<"Datafile", "Facility", "Grouping", "Investigation", "Log", "Rule",
    "Study", "User", "UserGroup">>

\* the elements of a sequence
Range(seq) == {seq[i] : i \in 1..Len(seq)}

\* the third step of the script, none of the entity types left out
EveryType == getEntityNames

\* the types the third step of the script calls deletetype for, in order:
\* for t in client.getEntityNames(): if t not in authztables
OtherTypes == SelectSeq(getEntityNames, LAMBDA t : t \notin Range(authztables))

\* the types whose objects the ICAT deletes with an object of type t:
\* by cascading, the deletion of the Facilities wipes almost everything
Cascade(t) ==
  IF t = "Facility" THEN {"Investigation", "Datafile"} ELSE {}

\* the numbers of objects of a type the ICAT may hold at the start
Counts == {0, searchlimit + 1}

\* client.search(query) with limit=(0, searchlimit): how many objects
Found(held) == IF held < searchlimit THEN held ELSE searchlimit

\* client.deleteMany(objs) for n objects of type t: with the last object
\* of a type, the objects that depend on the type go
Deleted(held, t, n) ==
  [u \in DOMAIN held |->
     IF u = t THEN held[u] - n
     ELSE IF u \in Cascade(t) /\ held[t] = n THEN 0
     ELSE held[u]]

\* the script has not been started
NoContent == [t \in {} |-> 0]

\* First step, delete all Datafiles from IDS: not done if the client has
\* no IDS
NoIds ==
  /\ wipc = "start"
  /\ ~hasids
  /\ wipc' = "facility"
  /\ UNCHANGED <<content, typeno, completed, removed, server, got, svars>>
  /\ UNCHANGED <<wvars, rvars, ovars, cvars>>

\* the smaller of two numbers
Min(a, b) == IF a < b THEN a ELSE b

\* client.search(query) for the Datafiles with a location, with
\* limit=(from, searchlimit): files is the states of these Datafiles in
\* the order of the search
Page(files, from) ==
  SubSeq(files, from + 1, Min(from + searchlimit, Len(files)))

\* the selection getDfSelections makes of a page: the Datafiles that have
\* the status
Selection(datafiles, status) ==
  SelectSeq(datafiles, LAMBDA s : s = status)

\* the Datafiles of a page that are not in the selection
NotSelected(datafiles, status) ==
  SelectSeq(datafiles, LAMBDA s : s # status)

\* the Datafiles after the page
AfterPage(files, from) ==
  SubSeq(files, Min(from + searchlimit, Len(files)) + 1, Len(files))

\* client.deleteData(selection) for the selection of the page: the
\* Datafiles of the selection are gone
deleteData(files, from) ==
  SubSeq(files, 1, from) \o NotSelected(Page(files, from), "ONLINE")
    \o AfterPage(files, from)

\* client.ids.restore(selection) for the selection of the page: the IDS
\* has the request to restore the Datafiles of the selection
restore(files, from) ==
  [i \in 1..Len(files) |->
     IF i > from /\ i <= from + searchlimit /\ files[i] = "ARCHIVED"
     THEN "RESTORING" ELSE files[i]]

\* history: a request to the IDS for n Datafiles
Request(op, n) == [op |-> op, n |-> n]

\* the requests of the sweep with the one for the selection, if the
\* generator has yielded it: an empty selection is not yielded
WithRequest(reqs, op, sel) ==
  IF Len(sel) > 0 THEN Append(reqs, Request(op, Len(sel)))
  ELSE reqs

\* the loop over the sweeps starts a sweep: with an IDS older than
\* 1.3.0, only when waitOpsQueue has seen the queue of the IDS empty
StartSweep ==
  /\ wipc \in {"start", "sweep"}
  /\ hasids
  /\ oldids => Len(Selection(dfs, "RESTORING")) = 0
  /\ wipc' = "online"
  /\ skip' = 0
  /\ requests' = <<>>
  /\ lastsweep' = requests
  /\ examined' = 0
  /\ UNCHANGED <<hasids, oldids, dfs>>
  /\ UNCHANGED <<content, typeno, completed, removed, server, got>>
  /\ UNCHANGED <<wvars, rvars, ovars, cvars>>

\* DeletePage, the offset of the search advanced by the number of
\* Datafiles that are left of the page
DeletePageAdjusted ==
  /\ wipc = "online"
  /\ IF Len(Page(dfs, skip)) = 0
     THEN /\ wipc' = "archived"
          /\ skip' = 0
          /\ examined' = 0
          /\ UNCHANGED <<dfs, requests, content>>
     ELSE /\ dfs' = deleteData(dfs, skip)
          /\ content' = [content EXCEPT !["Datafile"] =
                           @ - Len(Selection(Page(dfs, skip), "ONLINE"))]
          /\ requests' = WithRequest(requests, "deleteData",
                                     Selection(Page(dfs, skip), "ONLINE"))
          /\ skip' = skip + Len(NotSelected(Page(dfs, skip), "ONLINE"))
          /\ examined' = examined + Len(Page(dfs, skip))
          /\ UNCHANGED wipc
  /\ UNCHANGED <<hasids, oldids, lastsweep>>
  /\ UNCHANGED <<typeno, completed, removed, server, got>>
  /\ UNCHANGED <<wvars, rvars, ovars, cvars>>

\* one turn of the loop of getDfSelections("ONLINE") with the body of the
\* for loop over it: the search of the page at the offset, the offset
\* advanced, and, if the page is empty, the end of the generator;
\* otherwise client.deleteData for the selection, if there is one
DeletePage ==
  /\ wipc = "online"
  /\ IF Len(Page(dfs, skip)) = 0
     THEN /\ wipc' = "archived"
          /\ skip' = 0
          /\ examined' = 0
          /\ UNCHANGED <<dfs, requests, content>>
     ELSE /\ dfs' = deleteData(dfs, skip)
          /\ content' = [content EXCEPT !["Datafile"] =
                           @ - Len(Selection(Page(dfs, skip), "ONLINE"))]
          /\ requests' = WithRequest(requests, "deleteData",
                                     Selection(Page(dfs, skip), "ONLINE"))
          /\ skip' = skip + searchlimit
          /\ examined' = examined + Len(Page(dfs, skip))
          /\ UNCHANGED wipc
  /\ UNCHANGED <<hasids, oldids, lastsweep>>
  /\ UNCHANGED <<typeno, completed, removed, server, got>>
  /\ UNCHANGED <<wvars, rvars, ovars, cvars>>

\* one turn of the loop of getDfSelections("ARCHIVED") with the body of
\* the for loop over it: client.ids.restore for the selection
RestorePage ==
  /\ wipc = "archived"
  /\ IF Len(Page(dfs, skip)) = 0
     THEN /\ wipc' = "check"
          /\ UNCHANGED <<dfs, requests, skip, examined>>
     ELSE /\ dfs' = restore(dfs, skip)
          /\ requests' = WithRequest(requests, "restore",
                                     Selection(Page(dfs, skip), "ARCHIVED"))
          /\ skip' = skip + searchlimit
          /\ examined' = examined + Len(Page(dfs, skip))
          /\ UNCHANGED wipc
  /\ UNCHANGED <<hasids, oldids, lastsweep>>
  /\ UNCHANGED <<content, typeno, completed, removed, server, got>>
  /\ UNCHANGED <<wvars, rvars, ovars, cvars>>

\* CheckLeft, the loop left after the first sweep
CheckLeftOnce ==
  /\ wipc = "check"
  /\ wipc' = "facility"
  /\ UNCHANGED <<content, typeno, completed, removed, server, got, svars>>
  /\ UNCHANGED <<wvars, rvars, ovars, cvars>>

\* the end of a sweep: if any Datafile with a location is left, sleep and
\* continue the loop, else break
CheckLeft ==
  /\ wipc = "check"
  /\ wipc' = IF Len(Page(dfs, 0)) > 0 THEN "sweep" ELSE "facility"
  /\ UNCHANGED <<content, typeno, completed, removed, server, got, svars>>
  /\ UNCHANGED <<wvars, rvars, ovars, cvars>>

\* the restoring Datafiles up to place i
RestoringUpTo(files, i) == Len(Selection(SubSeq(files, 1, i), "RESTORING"))

\* the IDS has brought the first n of the restoring Datafiles online;
\* with evict, the Datafiles that were online are archived for it
Restored(files, n, evict) ==
  [i \in 1..Len(files) |->
     IF files[i] = "RESTORING" /\ RestoringUpTo(files, i) <= n THEN "ONLINE"
     ELSE IF files[i] = "ONLINE" /\ evict THEN "ARCHIVED"
     ELSE files[i]]

\* the IDS works on its queue: it brings all Datafiles it was asked to
\* restore online, or as many as one request has, and may archive others
\* for it
BringOnline(all, evict) ==
  /\ hasids
  /\ wipc \in {"sweep", "online", "archived", "check"}
  /\ Len(Selection(dfs, "RESTORING")) > 0
  /\ dfs' = Restored(dfs,
                     IF all THEN Len(Selection(dfs, "RESTORING"))
                     ELSE Min(Len(Selection(dfs, "RESTORING")), searchlimit),
                     evict)
  /\ UNCHANGED <<hasids, oldids, skip, requests, lastsweep, examined>>
  /\ UNCHANGED <<wipc, content, typeno, completed, removed, server, got>>
  /\ UNCHANGED <<wvars, rvars, ovars, cvars>>

(***************************************************************************)
(* icat/ids.py: IDSRequest.  A dict of headers is a function from header   *)
(* names to values; parameters are a sequence of <<name, value>> pairs.    *)
(***************************************************************************)
\* {}
NoHeaders == [x \in {} |-> ""]

\* key.capitalize(), for the header names of the model
capitalize(key) ==
  CASE key = "Content-Type"  -> "Content-type"
    [] key = "Cache-Control" -> "Cache-control"
    [] OTHER                 -> key

\* urllib.urlencode(parameters)
RECURSIVE urlencode(_)
urlencode(parameters) ==
  IF parameters = <<>> THEN ""
  ELSE parameters[1][1] \o "=" \o parameters[1][2]
       \o (IF Len(parameters) > 1 THEN "&" ELSE "")
       \o urlencode(Tail(parameters))

\* Request.add_header(key, val): self.headers[key.capitalize()] = val
add_header(headers, key, val) == Put(headers, capitalize(key), val)

\* Request.__init__: self.headers = {}, then add_header for each item of
\* the argument
RequestHeaders(headers) ==
  [x \in {capitalize(k) : k \in DOMAIN headers} |->
     headers[CHOOSE k \in DOMAIN headers : capitalize(k) = x]]

\* the four add_header calls at the end of IDSRequest.__init__
WithFixedHeaders(headers) ==
  add_header(
    add_header(
      add_header(
        add_header(headers, "Cache-Control", "no-cache"),
        "Pragma", "no-cache"),
      "Accept", "text/html, image/gif, image/jpeg, *; q=.2, */*; q=.2"),
    "Connection", "keep-alive")

\* the dict headers as the branch 'if parameters' leaves it
HeadersSet(headers, parameters, method) ==
  IF parameters # <<>> /\ method = "POST"
  THEN Put(headers, "Content-Type", "application/x-www-form-urlencoded")
  ELSE headers

\* the same branch with a copy of the dict
HeadersCopied(headers, parameters, method) == headers

\* the url the request is built with
RequestUrl(url, parameters, method) ==
  IF parameters # <<>> /\ method # "POST"
  THEN url \o "?" \o urlencode(parameters)
  ELSE url

\* the data the request is built with
RequestData(parameters, body, method) ==
  IF parameters # <<>> /\ method = "POST" THEN urlencode(parameters)
  ELSE body

\* the dict that the name headers is bound to in __init__: the default
\* value, one object for all calls, or the argument of the caller
HeadersArg(given, headers) == IF given THEN headers ELSE defaults

\* the number of requests built
MaxRequests == 3

\* IDSRequest(url, parameters, data, headers, method); given tells
\* whether the caller passed headers
IDSRequest(url, parameters, body, given, headers, method) ==
  /\ Len(built) < MaxRequests
  /\ built' = Append(built,
       [url |-> RequestUrl(url, parameters, method),
        data |-> RequestData(parameters, body, method),
        headers |-> WithFixedHeaders(RequestHeaders(
                      HeadersSet(HeadersArg(given, headers), parameters,
                                 method))),
        method |-> method,
        parameters |-> parameters,
        given |-> given])
  /\ defaults' = IF given THEN defaults
                 ELSE HeadersSet(defaults, parameters, method)
  /\ UNCHANGED <<selection, extended, pvars, dvars>>
  /\ UNCHANGED <<wvars, rvars, ovars, xvars>>

(***************************************************************************)
(* icat/ids.py: DataSelection.  The argument of extend is a DataSelection, *)
(* a sequence, a mapping, or something else.                               *)
(***************************************************************************)
\* DataSelection(): three empty lists
EmptySelection == [invIds |-> <<>>, dsIds |-> <<>>, dfIds |-> <<>>]

ASelection(sel) == [k |-> "selection", sel |-> sel, items |-> <<>>]
ASequence(items) == [k |-> "seq", sel |-> EmptySelection, items |-> items]
AMapping(sel) == [k |-> "map", sel |-> sel, items |-> <<>>]
AnObject(o) == [k |-> "other", sel |-> EmptySelection, items |-> <<o>>]

\* isinstance(o, Entity)
IsEntity(o) == o.k = "obj"

\* the branch of the loop body that appends o.id
WithId(sel, o) ==
  CASE o.BeanName = "Investigation" ->
         [sel EXCEPT !.invIds = Append(@, o.id)]
    [] o.BeanName = "Dataset" ->
         [sel EXCEPT !.dsIds = Append(@, o.id)]
    [] o.BeanName = "Datafile" ->
         [sel EXCEPT !.dfIds = Append(@, o.id)]
    [] OTHER -> sel

DataTypes == {"Investigation", "Dataset", "Datafile"}

\* a sequence extended with another
Extended(sel, other) ==
  [invIds |-> sel.invIds \o other.invIds,
   dsIds |-> sel.dsIds \o other.dsIds,
   dfIds |-> sel.dfIds \o other.dfIds]

\* the loop 'for o in objs' from element i on: the selection as the loop
\* leaves it and the exception it raised, if any
RECURSIVE ExtendSeq(_, _, _)
ExtendSeq(sel, items, i) ==
  IF i > Len(items) THEN [sel |-> sel, raised |-> ""]
  ELSE IF ~IsEntity(items[i]) THEN [sel |-> sel, raised |-> "TypeError"]
  ELSE IF items[i].BeanName \notin DataTypes
       THEN [sel |-> sel, raised |-> "ValueError"]
  ELSE ExtendSeq(WithId(sel, items[i]), items, i + 1)

\* extend with all elements of a sequence checked before any id is added
extendChecked(sel, objs) ==
  IF objs.k = "seq"
  THEN (IF ExtendSeq(sel, objs.items, 1).raised # ""
        THEN [sel |-> sel, raised |-> ExtendSeq(sel, objs.items, 1).raised]
        ELSE ExtendSeq(sel, objs.items, 1))
  ELSE IF objs.k \in {"selection", "map"}
       THEN [sel |-> Extended(sel, objs.sel), raised |-> ""]
  ELSE [sel |-> sel, raised |-> "TypeError"]

\* DataSelection.extend(objs)
extend(sel, objs) ==
  CASE objs.k = "selection" ->
         [sel |-> Extended(sel, objs.sel), raised |-> ""]
    [] objs.k = "seq" -> ExtendSeq(sel, objs.items, 1)
    [] objs.k = "map" -> [sel |-> Extended(sel, objs.sel), raised |-> ""]
    [] OTHER -> [sel |-> sel, raised |-> "TypeError"]

\* the number of calls of extend
MaxExtends == 2

\* selection.extend(objs)
DataSelectionExtend(objs) ==
  /\ Len(extended) < MaxExtends
  /\ selection' = extend(selection, objs).sel
  /\ extended' = Append(extended,
                        [before |-> selection, objs |-> objs,
                         raised |-> extend(selection, objs).raised])
  /\ UNCHANGED <<defaults, built, pvars, dvars>>
  /\ UNCHANGED <<wvars, rvars, ovars, xvars>>

(***************************************************************************)
(* icat/ids.py: ChunkedFileReader and IDSClient.put.  A number of 32 bits  *)
(* or more is the pair of its low 16 bits and the rest, so that the value  *)
(* is hi * 65536 + lo; hi is negative for a negative number.               *)
(***************************************************************************)
Word(hi, lo) == [hi |-> hi, lo |-> lo]

\* a ^ b for two numbers of 16 bits
RECURSIVE Xor16(_, _)
Xor16(a, b) ==
  IF a = 0 THEN b
  ELSE IF b = 0 THEN a
  ELSE ((a + b) % 2) + 2 * Xor16(a \div 2, b \div 2)

\* w & 0xffffffff
Masked(w) == Word(w.hi % 65536, w.lo)

\* the signed number of 32 bits that Python 2 returns for the bits of w
Signed(w) == Word(IF w.hi >= 32768 THEN w.hi - 65536 ELSE w.hi, w.lo)

\* w ^ 0xffffffff for a number of 32 bits without sign
Inverted(w) == Word(65535 - w.hi, 65535 - w.lo)

\* n rounds for a byte: the register is shifted right, and the polynomial
\* 0xEDB88320 is added when the bit shifted out is set
RECURSIVE CrcRounds(_, _, _)
CrcRounds(hi, lo, n) ==
  IF n = 0 THEN Word(hi, lo)
  ELSE IF lo % 2 = 1
       THEN CrcRounds(Xor16(hi \div 2, 60856),
                      Xor16((lo \div 2) + 32768 * (hi % 2), 33568), n - 1)
  ELSE CrcRounds(hi \div 2, (lo \div 2) + 32768 * (hi % 2), n - 1)

\* the register after the byte b
CrcByte(w, b) == CrcRounds(w.hi, Xor16(w.lo, b), 8)

\* the register after the first n of the bytes
RECURSIVE CrcBytes(_, _, _)
CrcBytes(w, bytes, n) ==
  IF n = 0 THEN w ELSE CrcByte(CrcBytes(w, bytes, n - 1), bytes[n])

\* zlib.crc32(chunk, value): the CRC-32 of chunk, continued from value
crc32(bytes, value) ==
  Signed(Inverted(CrcBytes(Inverted(Masked(value)), bytes, Len(bytes))))

\* ChunkedFileReader.__init__: chunksize=8192
ReaderChunksize == 8192

\* the bytes the server gets for a chunk: the chunk, or the chunk with its
\* first byte changed on the way
OtherByte(b) == IF b = 97 THEN 98 ELSE 97
Transmitted(bytes, garbled) ==
  IF garbled THEN <<OtherByte(Head(bytes))>> \o Tail(bytes) ELSE bytes

\* the answer of the server to a put: the checksum of what it got and the
\* id of the new datafile
PutAnswer(bytes, id) ==
  [checksum |-> Masked(crc32(bytes, Word(0, 0))), id |-> id]

\* a comparison that finds no difference
ChecksumAny(om, crc) == FALSE

\* om["checksum"] != crc
ChecksumDiffers(om, crc) == om.checksum # crc

NoPut == [called |-> FALSE]
PutRaised(exc) == [called |-> TRUE, raised |-> exc, id |-> 0]
PutReturned(id) == [called |-> TRUE, raised |-> "", id |-> id]

\* put(None, ...): 'if not inputStream: raise ValueError'
PutMissing ==
  /\ ppc = "idle"
  /\ ppc' = "done"
  /\ putres' = PutRaised("ValueError")
  /\ UNCHANGED <<inputfile, readercrc, chunksread, received, sent>>
  /\ UNCHANGED <<defaults, built, selection, extended, dvars>>
  /\ UNCHANGED <<wvars, rvars, ovars, xvars>>

\* put(inputStream, ...) up to the point where the request is opened: the
\* reader is made and the request with the reader as its data is sent
PutOpen(stream) ==
  /\ ppc = "idle"
  /\ ppc' = "sending"
  /\ inputfile' = stream
  /\ readercrc' = Word(0, 0)
  /\ chunksread' = <<>>
  /\ received' = <<>>
  /\ sent' = Append(sent, "put")
  /\ UNCHANGED putres
  /\ UNCHANGED <<defaults, built, selection, extended, dvars>>
  /\ UNCHANGED <<wvars, rvars, ovars, xvars>>

\* ChunkedFileReader.next() for a stream that has data: read returns the
\* next n bytes, at least one and at most chunksize; the chunk is sent
PutChunk(n, garbled) ==
  /\ ppc = "sending"
  /\ n >= 1
  /\ n <= ReaderChunksize
  /\ n <= Len(inputfile)
  /\ inputfile' = SubSeq(inputfile, n + 1, Len(inputfile))
  /\ readercrc' = crc32(SubSeq(inputfile, 1, n), readercrc)
  /\ chunksread' = Append(chunksread, SubSeq(inputfile, 1, n))
  /\ received' = received \o Transmitted(SubSeq(inputfile, 1, n), garbled)
  /\ UNCHANGED <<ppc, sent, putres>>
  /\ UNCHANGED <<defaults, built, selection, extended, dvars>>
  /\ UNCHANGED <<wvars, rvars, ovars, xvars>>

\* the stream is at its end, next() raises StopIteration and the request
\* is complete; the server reports an error and the error handler raises
PutFailed ==
  /\ ppc = "sending"
  /\ Len(inputfile) = 0
  /\ ppc' = "done"
  /\ putres' = PutRaised("IDSError")
  /\ UNCHANGED <<inputfile, readercrc, chunksread, received, sent>>
  /\ UNCHANGED <<defaults, built, selection, extended, dvars>>
  /\ UNCHANGED <<wvars, rvars, ovars, xvars>>

\* the same, the server answers with the checksum and the id; put compares
\* the checksum with inputreader.crc32 & 0xffffffff
PutDone(id) ==
  /\ ppc = "sending"
  /\ Len(inputfile) = 0
  /\ ppc' = "done"
  /\ putres' = IF ChecksumDiffers(PutAnswer(received, id), Masked(readercrc))
               THEN PutRaised("IDSResponseError")
               ELSE PutReturned(PutAnswer(received, id).id)
  /\ UNCHANGED <<inputfile, readercrc, chunksread, received, sent>>
  /\ UNCHANGED <<defaults, built, selection, extended, dvars>>
  /\ UNCHANGED <<wvars, rvars, ovars, xvars>>

(***************************************************************************)
(* icatdump.py: getobjs.  The Studies of the model have the constraint     *)
(* ('name', 'id') that the script gives the type.                          *)
(***************************************************************************)
Study(id, name) ==
  Entity("Study", id, [x \in {"name"} |-> S(name)], <<>>, <<>>)

\* e.getUniqueKey(autoget=False, keyindex=keyindex) for a Study that is
\* not in the key index
StudyKey(e) ==
  KeyStr(Key(e.BeanName, "name-" \o quote(Str(e.attr["name"]))
                         \o "_id-" \o ToString(e.id)))

\* the same, the key index consulted first
KeyIn(index, e) ==
  IF <<e.BeanName, e.id>> \in DOMAIN index
  THEN index[<<e.BeanName, e.id>>]
  ELSE StudyKey(e)

\* the key index with the keys of the objects
RECURSIVE WithKeys(_, _)
WithKeys(index, objs) ==
  IF objs = <<>> THEN index
  ELSE WithKeys(Put(index, <<Head(objs).BeanName, Head(objs).id>>,
                   KeyIn(index, Head(objs))),
               Tail(objs))

\* convert(e): the dict made of the entity
Converted(e) == [BeanName |-> e.BeanName, id |-> e.id, attr |-> e.attr]

\* the dict d after the loop over the search result
RECURSIVE ByKey(_, _, _)
ByKey(d, index, objs) ==
  IF objs = <<>> THEN d
  ELSE ByKey(Put(d, KeyIn(index, Head(objs)), Converted(Head(objs))),
             WithKeys(index, <<Head(objs)>>), Tail(objs))

\* the unique keys of the model, in the order of Python's strings
KeyOrder == <<"Study_name-a_id-10", "Study_name-a_id-9",
              "Study_name-b%20c_id-1", "Study_name-b_id-2">>

\* the keys in the reverse order
KeysDescending(keys) ==
  SelectSeq([i \in 1..Len(KeyOrder) |-> KeyOrder[Len(KeyOrder) + 1 - i]],
            LAMBDA k : k \in keys)

\* keys = d.keys(); keys.sort()
SortedKeys(keys) == SelectSeq(KeyOrder, LAMBDA k : k \in keys)

\* "%s_%08d" % (name, i)
NewKey(name, i) == name \o "_" \o Fmt08(i)

\* the dict ds: the values of d under the new keys
Reindexed(d, name, keys) ==
  [x \in {NewKey(name, i) : i \in 1..Len(keys)} |->
     d[keys[CHOOSE i \in 1..Len(keys) : NewKey(name, i) = x]]]

\* what getobjs returns for the objects the search found
getobjs(name, index, objs, reindex) ==
  IF reindex
  THEN Reindexed(ByKey(<<>>, index, objs), name,
                 SortedKeys(DOMAIN ByKey(<<>>, index, objs)))
  ELSE ByKey(<<>>, index, objs)

\* the number of calls of getobjs
MaxDumps == 2

\* d = getobjs(name, convert, searchexp, reindex), the search finding objs
IcatdumpGetObjs(name, objs, reindex) ==
  /\ Len(dumped) < MaxDumps
  /\ dumped' = Append(dumped,
                      [name |-> name, objs |-> objs, reindex |-> reindex,
                       d |-> getobjs(name, dumpindex, objs, reindex)])
  /\ dumpindex' = WithKeys(dumpindex, objs)
  /\ UNCHANGED <<defaults, built, selection, extended, pvars>>
  /\ UNCHANGED <<wvars, rvars, ovars, xvars>>

\* Second step, delete all Facilities:
\* client.deleteMany(client.search("Facility"))
DeleteFacilities(ok) ==
  /\ wipc = "facility"
  /\ content' = IF ok THEN Deleted(content, "Facility", content["Facility"])
                ELSE content
  /\ wipc' = IF ok THEN "others" ELSE "failed"
  /\ typeno' = 1
  /\ UNCHANGED <<completed, removed, server, got, svars>>
  /\ UNCHANGED <<wvars, rvars, ovars, cvars>>

\* the list of types of the loop the script is in
TypesOf(pc) == IF pc = "others" THEN OtherTypes ELSE authztables

\* the loop over the types is at its end: the last step follows the third,
\* the end of the script the last
LoopDone ==
  /\ wipc \in {"others", "authz"}
  /\ typeno > Len(TypesOf(wipc))
  /\ wipc' = IF wipc = "others" THEN "authz" ELSE "end"
  /\ typeno' = 1
  /\ UNCHANGED <<content, completed, removed, server, got, svars>>
  /\ UNCHANGED <<wvars, rvars, ovars, cvars>>

\* deletetype(t), the search finds nothing: it returns
DeleteTypeDone(t) ==
  /\ Found(content[t]) = 0
  /\ completed' = completed \cup {t}
  /\ typeno' = typeno + 1
  /\ UNCHANGED <<wipc, content, removed>>

\* how many of the n objects given to it a deleteMany call removes: all
\* of them when it returns; when it raises ICATInternalError, all of them
\* or none, or, with partial, all but one
Removals(n, internal, partial) ==
  IF ~internal THEN {n}
  ELSE IF partial THEN {0, n - 1, n}
  ELSE {0, n}

\* DeleteTypeMany, the ICATInternalError not caught
DeleteTypeManyRaised(t, internal, k) ==
  /\ Found(content[t]) > 0
  /\ content' = Deleted(content, t, k)
  /\ removed' = IF k > 0
                THEN Append(removed, [t |-> t, n |-> k, done |-> completed])
                ELSE removed
  /\ wipc' = IF internal THEN "failed" ELSE wipc
  /\ UNCHANGED <<typeno, completed>>

\* deletetype(t), deleteMany for the objects found; with internal, it
\* raised ICATInternalError, which is ignored; k of the objects are gone
DeleteTypeMany(t, internal, k) ==
  /\ Found(content[t]) > 0
  /\ content' = Deleted(content, t, k)
  /\ removed' = IF k > 0
                THEN Append(removed, [t |-> t, n |-> k, done |-> completed])
                ELSE removed
  /\ UNCHANGED <<wipc, typeno, completed>>

\* deletetype(t), the search or deleteMany raised another exception
DeleteTypeFailed(t) ==
  /\ wipc' = "failed"
  /\ UNCHANGED <<content, typeno, completed, removed>>

\* the type deletetype has been called for
TypeAtHand == TypesOf(wipc)[typeno]

\* one turn of the loop of deletetype(t) for the type at hand; every
\* deleteMany call removes at least so many objects, and with partial it
\* may remove a part of the objects only
DeleteType(least, partial) ==
  /\ wipc \in {"others", "authz"}
  /\ typeno <= Len(TypesOf(wipc))
  /\ \/ DeleteTypeDone(TypeAtHand)
     \/ \E internal \in BOOLEAN :
          \E k \in {n \in Removals(Found(content[TypeAtHand]), internal,
                                    partial) : n >= least} :
            DeleteTypeMany(TypeAtHand, internal, k)
     \/ DeleteTypeFailed(TypeAtHand)
  /\ UNCHANGED <<server, got, svars>>
  /\ UNCHANGED <<wvars, rvars, ovars, cvars>>

(***************************************************************************)
(* icat/ids.py: IDSClient.getApiVersion.  The server is what it does with  *)
(* each of the three calls: the body of the response, an IDSError raised   *)
(* by the error handler, or another exception of the request.              *)
(***************************************************************************)
Answer(text) == [k |-> "body", text |-> text]
Raise(cls) == [k |-> "raise", cls |-> cls]

\* the exception is an instance of IDSError
IsIDSError(r) == r.k = "raise" /\ r.cls = "IDSError"

\* the outcome of IDSClient.getApiVersion: the calls made to the server,
\* in order, the value returned ("" when it raised) and the exception
\* raised ("" when it returned)
Outcome_(calls_, ret, err) == [calls |-> calls_, ret |-> ret, err |-> err]

\* IDSClient.ping(): the exception it raises, "" when it returns
ping(srv) ==
  IF srv.ping.k = "raise" THEN srv.ping.cls
  ELSE IF srv.ping.text # "IdsOK" THEN "IDSResponseError"
  ELSE ""

\* getApiVersion, the guess made without the ping
getApiVersionNoPing(srv) ==
  IF srv.getApiVersion.k = "body"
  THEN Outcome_(<<"getApiVersion">>, srv.getApiVersion.text, "")
  ELSE IF ~IsIDSError(srv.getApiVersion)
  THEN Outcome_(<<"getApiVersion">>, "", srv.getApiVersion.cls)
  ELSE IF srv.isReadOnly.k = "body"
  THEN Outcome_(<<"getApiVersion", "isReadOnly">>, "1.2.0", "")
  ELSE IF ~IsIDSError(srv.isReadOnly)
  THEN Outcome_(<<"getApiVersion", "isReadOnly">>, "", srv.isReadOnly.cls)
  ELSE Outcome_(<<"getApiVersion", "isReadOnly">>, "1.0.0", "")

\* IDSClient.getApiVersion()
getApiVersion(srv) ==
  IF srv.getApiVersion.k = "body"
  THEN Outcome_(<<"getApiVersion">>, srv.getApiVersion.text, "")
  ELSE IF ~IsIDSError(srv.getApiVersion)
  THEN Outcome_(<<"getApiVersion">>, "", srv.getApiVersion.cls)
  ELSE IF ping(srv) # ""
  THEN Outcome_(<<"getApiVersion", "ping">>, "", ping(srv))
  ELSE IF srv.isReadOnly.k = "body"
  THEN Outcome_(<<"getApiVersion", "ping", "isReadOnly">>, "1.2.0", "")
  ELSE IF ~IsIDSError(srv.isReadOnly)
  THEN Outcome_(<<"getApiVersion", "ping", "isReadOnly">>, "",
                srv.isReadOnly.cls)
  ELSE Outcome_(<<"getApiVersion", "ping", "isReadOnly">>, "1.0.0", "")

\* no server, no call
NoServer == [k |-> "none"]
NoCall == [called |-> FALSE]

\* a call of IDSClient.getApiVersion
GetApiVersion ==
  /\ server # NoServer
  /\ ~got.called
  /\ got' = [called |-> TRUE, did |-> getApiVersion(server)]
  /\ UNCHANGED <<wipc, content, typeno, completed, removed, server, svars>>
  /\ UNCHANGED <<wvars, rvars, ovars, cvars>>

\* what a server does with a call: answers, or the request raises an
\* IDSError (the error handler on an HTTP error of the IDS), an
\* IDSResponseError (the error handler on another HTTP error) or an
\* URLError (no connection); the last two are no IDSError
VersionAnswers ==
  {Answer("1.3.0"), Answer("1.3.1-SNAPSHOT"), Answer("1.2.0"),
   Raise("IDSError"), Raise("IDSResponseError"), Raise("URLError")}
PingAnswers ==
  {Answer("IdsOK"), Answer("<html>"), Raise("IDSError"),
   Raise("IDSResponseError"), Raise("URLError")}
ReadOnlyAnswers ==
  {Answer("true"), Answer("false"), Raise("IDSError"),
   Raise("IDSResponseError"), Raise("URLError")}

Servers ==
  [getApiVersion : VersionAnswers, ping : PingAnswers,
   isReadOnly : ReadOnlyAnswers]

(***************************************************************************)
(* The register of backends and open_dumpfile: icat/dumpfile.py.  A mode   *)
(* is the sequence of its characters, f a file name or a file object.      *)
(***************************************************************************)
\* Backends = {}
NoBackends == [x \in {} |-> <<>>]

\* the register after the import of icat.dumpfile_xml
XMLBackend ==
  Put(NoBackends, "XML", <<"XMLDumpFileReader", "XMLDumpFileWriter">>)

\* a file object that is open
FileObject(name) == [k |-> "file", name |-> name]

\* what a call of open_dumpfile does: the exception it raises ("" when it
\* returns), the class it makes an instance of, the file object it passes
\* to it, and the names of the files it has opened
Outcome(err, cls, file, files) ==
  [err |-> err, cls |-> cls, file |-> file, files |-> files]

\* the file object for f: the standard stream std for "-", the file of
\* the name opened, or f itself
FileFor(f, std) ==
  IF f.k = "str" THEN (IF f.s = "-" THEN FileObject(std) ELSE FileObject(f.s))
  ELSE f

\* the names open() is called with
FilesOpened(f) == IF f.k = "str" /\ f.s # "-" THEN {f.s} ELSE {}

\* open_dumpfile(client, f, formatname, mode), backends the register
open_dumpfile(backends, f, formatname, mode) ==
  IF formatname \notin DOMAIN backends
  THEN Outcome("ValueError: Unknown data file format", "", None, {})
  ELSE IF Len(mode) = 0
  THEN Outcome("IndexError: string index out of range", "", None, {})
  ELSE IF mode[1] = "r"
  THEN Outcome("", backends[formatname][1], FileFor(f, "stdin"),
               FilesOpened(f))
  ELSE IF mode[1] = "w"
  THEN Outcome("", backends[formatname][2], FileFor(f, "stdout"),
               FilesOpened(f))
  ELSE Outcome("ValueError: Invalid file mode", "", None, {})

\* no call of open_dumpfile yet
NotCalled == [called |-> FALSE]

\* RegisterBackend, the register left with the new backend only
RegisterBackendAlone(formatname, reader, writer) ==
  /\ Backends' = Put(NoBackends, formatname, <<reader, writer>>)
  /\ UNCHANGED opened
  /\ UNCHANGED <<wvars, rvars, xvars, cvars>>

\* register_backend(formatname, reader, writer)
RegisterBackend(formatname, reader, writer) ==
  /\ Backends' = Put(Backends, formatname, <<reader, writer>>)
  /\ UNCHANGED opened
  /\ UNCHANGED <<wvars, rvars, xvars, cvars>>

\* a call of open_dumpfile
OpenDumpfile(f, formatname, mode) ==
  /\ opened' = [called |-> TRUE, backends |-> Backends, f |-> f,
                formatname |-> formatname, mode |-> mode,
                did |-> open_dumpfile(Backends, f, formatname, mode)]
  /\ UNCHANGED Backends
  /\ UNCHANGED <<wvars, rvars, xvars, cvars>>

\* the arguments of the calls
FormatNames == {"XML", "YAML", "CSV"}
Modes == {<<>>, <<"r">>, <<"w">>, <<"r", "b">>, <<"w", "t">>, <<"a">>,
          <<"x">>, <<"R">>}
FileArgs == {S("-"), S("icat.xml"), FileObject("f")}

(***************************************************************************)
(* Files that were not written by the writer, and the ICAT they are read   *)
(* into.                                                                   *)
(***************************************************************************)
\* the subelement of an attribute, a reference by key, a chunk, a file
AttrEl(attr, text) == Elem(attr, {}, S(text), <<>>)
RefEl(attr, key) == Elem(attr, {<<"ref", key>>}, None, <<>>)
DataEl(elems) == Elem("data", {}, None, elems)
File(chunks) == <<XmlOpen, HeadElem>> \o chunks \o <<XmlClose>>

\* the ICAT holds two facilities
Store0 == <<Entity("Facility", 1, [name |-> S("a")], NoRel, NoMRel),
            Entity("Facility", 2, [name |-> S("q")], NoRel, NoMRel)>>

\* a reference to a facility by its attributes, under a key of the file
FacRefA == Elem("facilityRef", {<<"id", "Facility_1">>, <<"name", "a">>},
                None, <<>>)
\* the same without a key
FacRefNoKey == Elem("facilityRef", {<<"name", "a">>}, None, <<>>)
\* a reference to a facility by its unique key
FacRefQ == Elem("facilityRef", {<<"id", "Fac_q">>,
                                <<"ref", "Facility_name-q">>}, None, <<>>)
\* a reference to a facility the ICAT does not hold
FacRefX == Elem("facilityRef", {<<"id", "Facility_2">>, <<"name", "x">>},
                None, <<>>)
\* a reference to an object of no type
BogusRef == Elem("bogusRef", {<<"id", "Bogus_1">>}, None, <<>>)

\* an investigation of the facility with the key
InvOf(name, key, fackey) ==
  Elem("investigation", {<<"id", key>>}, None,
       <<AttrEl("name", name), RefEl("facility", fackey),
         Elem("keywords", {}, None, <<AttrEl("name", "p")>>)>>)

\* an investigation with a subelement that is no attribute of it
InvBad == Elem("investigation", {<<"id", "Inv_3">>}, None,
               <<AttrEl("name", "x"), AttrEl("doi", "p")>>)

\* an investigation with a keyword that has a subelement that is no
\* attribute of a keyword
InvBadChild ==
  Elem("investigation", {<<"id", "Inv_4">>}, None,
       <<AttrEl("name", "x"), RefEl("facility", "Facility_name-a"),
         Elem("keywords", {}, None,
              <<AttrEl("name", "p"), AttrEl("doi", "p")>>)>>)

\* an investigation of a facility the ICAT holds, with a keyword that
\* refers to an investigation the ICAT does not hold
InvLostRef ==
  Elem("investigation", {<<"id", "Inv_5">>}, None,
       <<AttrEl("name", "x"), RefEl("facility", "Facility_name-a"),
         Elem("keywords", {}, None,
              <<AttrEl("name", "p"),
                RefEl("investigation", "Investigation_name-x")>>)>>)

\* an investigation with two keywords
InvTwo ==
  Elem("investigation", {<<"id", "Inv_6">>}, None,
       <<AttrEl("name", "x"), RefEl("facility", "Facility_1"),
         Elem("keywords", {}, None, <<AttrEl("name", "p")>>),
         Elem("keywords", {}, None, <<AttrEl("name", "a")>>)>>)

SampleFiles ==
  { File(<<DataEl(<<FacRefA, InvTwo>>),
           DataEl(<<FacRefQ, InvOf("p", "Inv_2", "Fac_q")>>)>>),
    File(<<DataEl(<<FacRefA, InvOf("x", "Inv_1", "Facility_1"), FacRefQ,
                    InvOf("p", "Inv_2", "Fac_q")>>)>>),
    File(<<DataEl(<<FacRefA, FacRefNoKey>>),
           DataEl(<<InvOf("x", "Inv_1", "Facility_1")>>)>>),
    File(<<DataEl(<<FacRefNoKey, InvOf("x", "Inv_1", "Facility_name-a")>>),
           DataEl(<<FacRefA, InvOf("p", "Inv_1", "Facility_1"),
                    InvOf("x", "", "Facility_name-q")>>)>>),
    File(<<DataEl(<<InvOf("x", "Facility_1", "Facility_name-a"), FacRefA,
                    InvOf("p", "Inv_2", "Facility_1")>>)>>),
    File(<<DataEl(<<FacRefQ, FacRefX>>)>>),
    File(<<DataEl(<<FacRefA, BogusRef>>)>>),
    File(<<DataEl(<<InvBad>>)>>),
    File(<<DataEl(<<InvOf("p", "Inv_1", "Facility_name-q"), InvBadChild,
                    FacRefA>>)>>),
    File(<<DataEl(<<InvLostRef>>), DataEl(<<FacRefA>>)>>),
    File(<<DataEl(<<Elem("bogus", {}, None, <<>>)>>)>>) }

\* the index a caller of getobjs may hold before the call
CallerIndexes ==
  {EmptyObjIndex, [x \in {"Facility_1"} |-> Bare(Store0[2])]}

(***************************************************************************)
(* The specification.                                                      *)
(***************************************************************************)
\* Either a writer has been constructed (DumpFileWriter.__init__,
\* XMLDumpFileWriter.__init__), and the file it writes is then read into
\* an empty ICAT; or there is no writer (wpc is "none"), and one of the
\* sample files is read.
Init ==
  /\ icat = Catalog
  /\ wpc \in {"init", "none"}
  /\ idcounter = [x \in {} |-> 0]
  /\ data = <<>>
  /\ outfile = <<>>
  /\ keyindex = EmptyIndex
  /\ callerindex = EmptyIndex
  /\ calls = 0
  /\ issued = <<>>
  /\ wrote = <<>>
  /\ tried = <<>>
  /\ wcalls = <<>>
  /\ wstream = IF wpc = "none" THEN "none" ELSE "open"
  /\ rpc = "init"
  /\ infile \in (IF wpc = "none" THEN SampleFiles ELSE {<<>>})
  /\ filepos = 0
  /\ chunk = <<>>
  /\ chunkno = 0
  /\ elemno = 0
  /\ resetindex = TRUE
  /\ objindex \in (IF wpc = "none" THEN CallerIndexes ELSE {EmptyObjIndex})
  /\ cur = NoCur
  /\ yielded = <<>>
  /\ store = IF wpc = "none" THEN Store0 ELSE <<>>
  /\ registered = {}
  /\ rerr = ""
  /\ rstream = IF wpc = "none" THEN "open" ELSE "none"
  /\ Backends = XMLBackend
  /\ opened = NotCalled
  /\ wipc = "none"
  /\ content = NoContent
  /\ typeno = 0
  /\ completed = {}
  /\ removed = <<>>
  /\ server = NoServer
  /\ got = NoCall
  /\ hasids = FALSE
  /\ oldids = FALSE
  /\ dfs = <<>>
  /\ skip = 0
  /\ requests = <<>>
  /\ lastsweep = <<>>
  /\ examined = 0
  /\ defaults = NoHeaders
  /\ built = <<>>
  /\ selection = EmptySelection
  /\ extended = <<>>
  /\ ppc = "idle"
  /\ inputfile = <<>>
  /\ readercrc = Word(0, 0)
  /\ chunksread = <<>>
  /\ received = <<>>
  /\ sent = <<>>
  /\ putres = NoPut
  /\ dumpindex = <<>>
  /\ dumped = <<>>

Next ==
  \/ Enter
  \/ \E n \in 0..1 : EnterFailed(n)
  \/ \E srcs \in SourceLists, own \in BOOLEAN, c \in ChunkSizes :
       WriteData(srcs, own, c)
  \/ \E src \in Sources, c \in ChunkSizes : WriteObjs(src, c)
  \/ ExitOk
  \/ ExitRaised
  \/ OpenRead
  \/ \E own \in BOOLEAN : GetObjs(own)
  \/ GetData
  \/ EndData
  \/ EndChunk
  \/ ReadRef
  \/ ReadObj
  \/ Create
  \/ Truncate
  \/ Register
  \/ ReaderExit

Spec == Init /\ [][Next]_vars

(***************************************************************************)
(* The generated keys of the writer.                                       *)
(***************************************************************************)
\* the types with 'id' in their constraint
GenericTypes == {t \in Types : HasIdConstraint(t)}

\* the records of the chunks of a file from item i on, in order
RECURSIVE Records(_, _)
Records(file, i) ==
  IF i > Len(file) THEN <<>>
  ELSE (IF file[i].tag = "data" THEN file[i].sub ELSE <<>>)
         \o Records(file, i + 1)

\* the records the writer has produced, in the order of the writes
Written == Records(outfile, 1) \o data

\* the records of type t among recs
OfType(recs, t) == SelectSeq(recs, LAMBDA e : e.tag = instancetype(t))

\* "<t>_0000000<n>", the n-th numbered key of type t
NumberedKey(t, n) ==
  t \o "_" \o (IF n < 10 THEN "0000000" ELSE IF n < 100 THEN "000000"
                ELSE "00000") \o ToString(n)

\* the i-th record of recs carries the i-th numbered key of type t
Numbered(recs, t) ==
  \A i \in 1..Len(recs) : Get(recs[i], "id") = NumberedKey(t, i)

\* C1: the keys of the records of one type with 'id' in its constraint
\* are, in the order of the writes, Type_00000001, Type_00000002, ...
\* without a gap or a repetition, whatever was written in between
C1_GaplessKeys == \A t \in GenericTypes : Numbered(OfType(Written, t), t)

\* the positions of the records with these keys follow each other
InOrder(recs, k1, k2, k3) ==
  \E i, j, k \in 1..Len(recs) :
    /\ i < j /\ j < k
    /\ Get(recs[i], "id") = k1
    /\ Get(recs[j], "id") = k2
    /\ Get(recs[k], "id") = k3

\* C1 witness: a job and a facility are written between the second and the
\* third data collection
C1_Witness ==
  /\ InOrder(Written, "DataCollection_00000002", "Job_00000001",
             "DataCollection_00000003")
  /\ InOrder(Written, "DataCollection_00000002", "Facility_name-a",
             "DataCollection_00000003")

\* the number of keys of type t issued so far
IssuedOf(t) == Cardinality({i \in 1..Len(issued) : issued[i].t = t})

\* the chunks written to the output
Chunks(file) == SelectSeq(file, LAMBDA e : e.tag = "data")

\* C3: the counter of a type is the number of keys of the type issued since
\* the writer was constructed, whatever chunks were started and whatever
\* key index the calls used, and no generated key is issued twice
C3_CountersNeverReset ==
  /\ \A t \in Types : Counter(idcounter, t) = IssuedOf(t)
  /\ \A i, j \in 1..Len(issued) :
       i # j => issued[i].key # issued[j].key

\* C3 witness: three chunks, each written with a fresh key index, each
\* with generated keys
C3_Witness ==
  /\ callerindex = EmptyIndex
  /\ Len(Chunks(outfile)) = 3
  /\ \A i \in 1..3 : OfType(Chunks(outfile)[i].sub, "DataCollection") # <<>>
  /\ Counter(idcounter, "DataCollection") = 6

(***************************************************************************)
(* The scenario of a large dump: the ICAT holds some hundred objects of a  *)
(* type with 'id' in its constraint, and a caller dumps them with one      *)
(* writedata call.                                                         *)
(***************************************************************************)
\* an ICAT with n data collections
Many(n) ==
  [i \in 1..n |-> Entity("DataCollection", i, [doi |-> S("p")], NoRel,
                         NoMRel)]

DumpInit ==
  /\ icat \in {Many(n) : n \in (Instances - Smaller)..Instances}
  /\ wpc = "init"
  /\ idcounter = [x \in {} |-> 0]
  /\ data = <<>>
  /\ outfile = <<>>
  /\ keyindex = EmptyIndex
  /\ callerindex = EmptyIndex
  /\ calls = 0
  /\ issued = <<>>
  /\ wrote = <<>>
  /\ tried = <<>>
  /\ wcalls = <<>>
  /\ wstream = "open"
  /\ rpc = "init"
  /\ infile = <<>>
  /\ filepos = 0
  /\ chunk = <<>>
  /\ chunkno = 0
  /\ elemno = 0
  /\ resetindex = TRUE
  /\ objindex = EmptyObjIndex
  /\ cur = NoCur
  /\ yielded = <<>>
  /\ store = <<>>
  /\ registered = {}
  /\ rerr = ""
  /\ rstream = "none"
  /\ Backends = XMLBackend
  /\ opened = NotCalled
  /\ wipc = "none"
  /\ content = NoContent
  /\ typeno = 0
  /\ completed = {}
  /\ removed = <<>>
  /\ server = NoServer
  /\ got = NoCall
  /\ hasids = FALSE
  /\ oldids = FALSE
  /\ dfs = <<>>
  /\ skip = 0
  /\ requests = <<>>
  /\ lastsweep = <<>>
  /\ examined = 0
  /\ defaults = NoHeaders
  /\ built = <<>>
  /\ selection = EmptySelection
  /\ extended = <<>>
  /\ ppc = "idle"
  /\ inputfile = <<>>
  /\ readercrc = Word(0, 0)
  /\ chunksread = <<>>
  /\ received = <<>>
  /\ sent = <<>>
  /\ putres = NoPut
  /\ dumpindex = <<>>
  /\ dumped = <<>>

\* the one writedata call of the dump
Dump ==
  /\ calls = 0
  /\ \E own \in BOOLEAN, c \in {DefaultChunkSize, Smaller} :
       WriteData(<<Query("DataCollection")>>, own, c)

DumpNext == Enter \/ Dump \/ ExitOk

DumpSpec == DumpInit /\ [][DumpNext]_vars

(***************************************************************************)
(* The calls of open_dumpfile, from the import of icat.dumpfile on: no     *)
(* reader and no writer yet.                                               *)
(***************************************************************************)
OpenInit ==
  /\ icat = Catalog
  /\ wpc = "none"
  /\ idcounter = [x \in {} |-> 0]
  /\ data = <<>>
  /\ outfile = <<>>
  /\ keyindex = EmptyIndex
  /\ callerindex = EmptyIndex
  /\ calls = 0
  /\ issued = <<>>
  /\ wrote = <<>>
  /\ tried = <<>>
  /\ wcalls = <<>>
  /\ wstream = "none"
  /\ rpc = "init"
  /\ infile = <<>>
  /\ filepos = 0
  /\ chunk = <<>>
  /\ chunkno = 0
  /\ elemno = 0
  /\ resetindex = TRUE
  /\ objindex = EmptyObjIndex
  /\ cur = NoCur
  /\ yielded = <<>>
  /\ store = <<>>
  /\ registered = {}
  /\ rerr = ""
  /\ rstream = "none"
  /\ Backends = NoBackends
  /\ opened = NotCalled
  /\ wipc = "none"
  /\ content = NoContent
  /\ typeno = 0
  /\ completed = {}
  /\ removed = <<>>
  /\ server = NoServer
  /\ got = NoCall
  /\ hasids = FALSE
  /\ oldids = FALSE
  /\ dfs = <<>>
  /\ skip = 0
  /\ requests = <<>>
  /\ lastsweep = <<>>
  /\ examined = 0
  /\ defaults = NoHeaders
  /\ built = <<>>
  /\ selection = EmptySelection
  /\ extended = <<>>
  /\ ppc = "idle"
  /\ inputfile = <<>>
  /\ readercrc = Word(0, 0)
  /\ chunksread = <<>>
  /\ received = <<>>
  /\ sent = <<>>
  /\ putres = NoPut
  /\ dumpindex = <<>>
  /\ dumped = <<>>

\* the register_backend calls: of the two backends, and of a backend of
\* the caller's that takes the place of the XML backend
Registrations ==
  {<<"XML", "XMLDumpFileReader", "XMLDumpFileWriter">>,
   <<"YAML", "YAMLDumpFileReader", "YAMLDumpFileWriter">>,
   <<"XML", "MyReader", "MyWriter">>}

OpenNext ==
  \/ \E b \in Registrations : RegisterBackend(b[1], b[2], b[3])
  \/ \E f \in FileArgs, formatname \in FormatNames, mode \in Modes :
       OpenDumpfile(f, formatname, mode)

OpenSpec == OpenInit /\ [][OpenNext]_vars

\* the mode is one for reading or for writing: it starts with "r" or "w"
ReadOrWrite(mode) == Len(mode) > 0 /\ mode[1] \in {"r", "w"}

\* the call raised err and did nothing else
RaisedOnly(err) ==
  /\ opened.did.err = err
  /\ opened.did.files = {}
  /\ opened.did.cls = ""

\* C16: open_dumpfile fails with the unknown-format error for every
\* format name that is not registered and with the invalid-mode error for
\* every mode that is neither read nor write, the empty string included,
\* in both cases before any file is opened (refuted: for the empty mode
\* the index error of mode[0] leaves the function instead)
C16_ErrorsBeforeIO ==
  opened.called =>
    /\ opened.formatname \notin DOMAIN opened.backends
         => RaisedOnly("ValueError: Unknown data file format")
    /\ (opened.formatname \in DOMAIN opened.backends
          /\ ~ReadOrWrite(opened.mode))
         => RaisedOnly("ValueError: Invalid file mode")

\* the dump is complete
Dumped == wpc = "closed" /\ calls = 1

\* the numbers of records of the chunks of a file
ChunkLens(file) ==
  [i \in 1..Len(Chunks(file)) |-> Len(Chunks(file)[i].sub)]

\* C2: the dump of the objects of a type with 'id' in its constraint by
\* one writedata call is one chunk that holds all of them, whatever the
\* chunk size (it is the size of the pages of the search), with the keys
\* Type_00000001, Type_00000002, ... in the order of the records
C2_OneChunk ==
  Dumped =>
    /\ ChunkLens(outfile) = <<Len(icat)>>
    /\ Numbered(Chunks(outfile)[1].sub, "DataCollection")

\* C2 witness: 250 objects are dumped, the last under the key numbered 250
C2_Witness ==
  /\ Dumped
  /\ Len(icat) = 250
  /\ Len(Chunks(outfile)) = 1
  /\ Get(Chunks(outfile)[1].sub[250], "id") = "DataCollection_00000250"

\* C2 as claimed: the dump of 250 objects is three chunks of 100, 100 and
\* 50 records
C2_ThreeChunks ==
  (Dumped /\ Len(icat) = 250) => ChunkLens(outfile) = <<100, 100, 50>>

(***************************************************************************)
(* The index of the reader.                                                *)
(***************************************************************************)
\* getobjs is running
Reading == rpc \notin {"init", "done", "raised", "aborted"}

\* C4: when getobjs was called without an index, every key of its index
\* was entered while the current chunk was read
C4_IndexOfCurrentChunk ==
  (rpc # "init" /\ resetindex) =>
    \A key \in DOMAIN objindex : <<chunkno, key>> \in registered

\* C4 witness: the second chunk is being read with a key in the index,
\* and a key entered in the first chunk is not in the index
C4_Witness ==
  /\ Reading
  /\ resetindex
  /\ chunkno = 2
  /\ objindex # EmptyObjIndex
  /\ \E key \in {"Facility_name-a", "Facility_1"} :
       <<1, key>> \in registered /\ key \notin DOMAIN objindex

\* getobjs_from_data is at a reference to an object that exists already
AtRef ==
  /\ rpc = "elem"
  /\ elemno <= Len(chunk)
  /\ EndsWithRef(chunk[elemno].tag)

\* the key of the element getobjs_from_data is at
KeyAt == Get(chunk[elemno], "id")

\* the object is one of the store, without related objects, of the type
\* the tag of the element at hand names
FoundFor(obj) ==
  \E i \in 1..Len(store) :
    obj = Bare(store[i]) /\ RefTag(store[i].BeanName) = chunk[elemno].tag

\* the index holds key
Indexed(index, key) == key \in DOMAIN index

\* C5: a reference to an object that exists already is never yielded and
\* creates nothing; when it has a key, either the search of the object
\* raises, or the object found is entered in the index under the key and
\* the next element is read; when it has no key, it is passed over: no
\* search is made and the index stays as it is
C5_RefIndexedNotYielded ==
  [][AtRef =>
       /\ yielded' = yielded
       /\ store' = store
       /\ rpc' \in {"elem", "raised"}
       /\ KeyAt = "" => /\ rpc' = "elem"
                        /\ objindex' = objindex
                        /\ elemno' = elemno + 1
       /\ (KeyAt # "" /\ rpc' = "elem") =>
            /\ Indexed(objindex', KeyAt)
            /\ FoundFor(objindex'[KeyAt])
            /\ <<chunkno, KeyAt>> \in registered'
            /\ elemno' = elemno + 1]_vars

\* C5 witness: in the second chunk a reference was entered in the index
\* under its key, and no facility was yielded; the reference without key
\* of the first chunk left no entry
C5_Witness ==
  /\ wpc = "none"
  /\ chunkno = 2
  /\ elemno = 2
  /\ resetindex
  /\ DOMAIN objindex = {"Facility_1"}
  /\ objindex["Facility_1"] = Bare(Store0[1])
  /\ registered = {<<1, "Facility_name-a">>, <<1, "Inv_1">>,
                   <<2, "Facility_1">>}
  /\ \A i \in 1..Len(yielded) : yielded[i].obj.BeanName # "Facility"

\* C5 as claimed: every reference to an object that exists already is
\* resolved and entered in the index under its key, unless the search
\* raises
C5_EveryRefIndexed ==
  [][AtRef =>
       \/ rpc' = "raised"
       \/ /\ Indexed(objindex', KeyAt)
          /\ FoundFor(objindex'[KeyAt])]_vars

(***************************************************************************)
(* The order of the steps of getobjs.                                      *)
(***************************************************************************)
\* the object has no related objects
Truncated(obj) == obj.rel = NoRel /\ obj.mrel = NoMRel

\* the steps of getobjs and of its caller around a yield
YieldOrder ==
  /\ rpc' = "yielded" =>
       /\ rpc = "elem"
       /\ yielded' = Append(yielded, cur')
       /\ Indexed(objindex', cur'.key) => objindex'[cur'.key] # cur'.obj
       /\ UNCHANGED <<elemno, store>>
  /\ rpc = "yielded" =>
       /\ rpc' \in {"resumed", "aborted"}
       /\ UNCHANGED <<objindex, elemno, chunk, yielded>>
  /\ rpc = "resumed" =>
       /\ rpc' = "truncated"
       /\ Truncated(cur'.obj)
       /\ cur'.key = cur.key
       /\ UNCHANGED <<objindex, elemno, chunk, yielded>>
  /\ rpc = "truncated" =>
       /\ rpc' = "elem"
       /\ elemno' = elemno + 1
       /\ cur.key # "" => /\ Indexed(objindex', cur.key)
                          /\ objindex'[cur.key] = cur.obj
       /\ cur.key = "" => objindex' = objindex
       /\ UNCHANGED <<chunk, yielded>>

\* C6: an object is yielded, then (the caller having asked for the next
\* object) its relations are truncated, then it is entered in the index
\* under its key, and only then the next element is read; no step in
\* between changes the index or the position in the chunk, and every
\* object in the index has truncated relations
C6_YieldTruncateRegister ==
  /\ [](\A key \in DOMAIN objindex : Truncated(objindex[key]))
  /\ [][YieldOrder]_vars

\* C6 witness: an investigation was yielded with its facility and its
\* keywords, was created by the caller, and is in the index without them
C6_Witness ==
  /\ rpc = "elem"
  /\ Len(yielded) = 1
  /\ yielded[1].key = "Inv_1"
  /\ yielded[1].obj.rel # NoRel
  /\ yielded[1].obj.mrel # NoMRel
  /\ Indexed(objindex, "Inv_1")
  /\ objindex["Inv_1"] = Bare(store[3])

(***************************************************************************)
(* References to objects of earlier chunks.                                *)
(***************************************************************************)
\* the subelements of an element that refer to an object by its key
KeyRefs(element) ==
  {i \in 1..Len(element.sub) : Get(element.sub[i], "ref") # ""}

\* a record of an earlier chunk of the file has the key
DefinedEarlier(key) ==
  \E i \in 1..filepos - 1 :
    /\ infile[i].tag = "data"
    /\ \E j \in 1..Len(infile[i].sub) :
         /\ ~EndsWithRef(infile[i].sub[j].tag)
         /\ Get(infile[i].sub[j], "id") = key

\* the reference is to a record of an earlier chunk, and the index, reset
\* since, does not hold its key
CrossChunk(subelem) ==
  /\ resetindex
  /\ DefinedEarlier(Get(subelem, "ref"))
  /\ ~Indexed(objindex, Get(subelem, "ref"))

\* the index holds the key of the reference, or exactly one object of the
\* store has it
Resolvable(subelem) ==
  \/ Indexed(objindex, Get(subelem, "ref"))
  \/ Cardinality(WithKey(Get(subelem, "ref"), store)) = 1

\* the subelements of the element are attributes, references by key that
\* can be resolved, and embedded objects with attributes only
Readable(element, t) ==
  \A i \in 1..Len(element.sub) :
    \/ element.sub[i].tag \in InstAttr(t)
    \/ /\ element.sub[i].tag \in InstRel(t)
       /\ i \in KeyRefs(element)
       /\ Resolvable(element.sub[i])
    \/ /\ element.sub[i].tag \in InstMRel(t)
       /\ \A j \in 1..Len(element.sub[i].sub) :
            element.sub[i].sub[j].tag
              \in InstAttr(getAttrType(t, element.sub[i].tag))

\* getobjs_from_data is at a record that refers to a record of an earlier
\* chunk, and every reference of the record can be resolved
AtCrossChunkRef ==
  /\ rpc = "elem"
  /\ elemno <= Len(chunk)
  /\ InTypemap(chunk[elemno].tag)
  /\ Readable(chunk[elemno], BeanName(chunk[elemno].tag))
  /\ \E i \in KeyRefs(chunk[elemno]) : CrossChunk(chunk[elemno].sub[i])

\* the one object of the store with the key, as a search returns it
Remote(key) == Bare(store[CHOOSE i \in WithKey(key, store) : TRUE])

\* the relation of obj that subelem stands for is the object of the store
\* with the key of the reference, and the index holds it under the key
Linked(obj, subelem, index) ==
  /\ GetRel(obj, subelem.tag) = Remote(Get(subelem, "ref"))
  /\ Indexed(index, Get(subelem, "ref"))
  /\ index[Get(subelem, "ref")] = Remote(Get(subelem, "ref"))

\* C7: a record that refers by key to a record of an earlier chunk, the
\* index having been reset, is read and yielded with the relation set to
\* the one object of the ICAT that has the key, provided the ICAT holds
\* exactly one such object
C7_CrossChunkReference ==
  [][AtCrossChunkRef =>
       /\ rpc' = "yielded"
       /\ \A i \in KeyRefs(chunk[elemno]) :
            CrossChunk(chunk[elemno].sub[i]) =>
              Linked(cur'.obj, chunk[elemno].sub[i], objindex')]_vars

\* C7 witness: the investigation of the second chunk of a file written by
\* the writer was yielded with the facility of the first chunk, which the
\* caller had created
C7_Witness ==
  /\ wpc = "closed"
  /\ resetindex
  /\ chunkno = 2
  /\ rpc = "yielded"
  /\ cur.key = "Investigation_facility-(name-a)_name-x"
  /\ cur.obj.rel = [facility |-> Bare(store[1])]
  /\ store[1].BeanName = "Facility"
  /\ <<1, "Facility_name-a">> \in registered
  /\ <<2, "Facility_name-a">> \in registered

(***************************************************************************)
(* Writing a file and reading it back.                                     *)
(***************************************************************************)
\* the file read is the complete file the writer has written
RoundTrip == wpc = "closed" /\ infile = outfile /\ WellFormed(infile)

\* getobjs has ended, or the caller has given up
Ended == rpc \in {"done", "raised", "aborted"}

\* the type of the object a reference of a record of type t refers to has
\* 'id' in its constraint
ToGeneric(t, subelem) ==
  /\ subelem.tag \in InstRel(t)
  /\ getAttrType(t, subelem.tag) \in GenericTypes

\* a record before the j-th of the chunk has the key
EarlierInChunk(elems, j, key) ==
  \E i \in 1..j - 1 : Get(elems[i], "id") = key

\* in the chunk, a reference to an object with a generated key follows the
\* record of the object
GenericRefsLocalIn(elems) ==
  \A j \in 1..Len(elems) : \A i \in KeyRefs(elems[j]) :
    ToGeneric(BeanName(elems[j].tag), elems[j].sub[i])
      => EarlierInChunk(elems, j, Get(elems[j].sub[i], "ref"))

\* every reference to an object with a generated key is in the chunk of
\* the object's record, after it
GenericRefsLocal(file) ==
  \A i \in 1..Len(Chunks(file)) : GenericRefsLocalIn(Chunks(file)[i].sub)

\* the graph read from the file is the graph read from the one chunk of
\* the same objects, and both reads end the same way
SameAsOneChunk(r) ==
  /\ store = r.store
  /\ (rpc = "done") = r.ok

\* C8: when every reference to an object with a generated key is in the
\* chunk of that object's record, after it, then reading the file the
\* writer made of some objects, in whatever chunks, creates the same
\* objects with the same relations as reading the one chunk of these
\* objects, and ends the same way
C8_SameAsOneChunk ==
  (RoundTrip /\ Ended /\ GenericRefsLocal(infile))
    => SameAsOneChunk(OneChunkRead(wrote))

\* C8 witness: the facility and the investigation are in two chunks, read
\* with the index reset, and the investigation created has the facility
\* created, as when read from one chunk
C8_Witness ==
  /\ RoundTrip
  /\ rpc = "done"
  /\ resetindex
  /\ Len(Chunks(infile)) = 2
  /\ Len(Chunks(infile)[1].sub) = 1
  /\ Len(store) = 2
  /\ store[2].BeanName = "Investigation"
  /\ GetRel(store[2], "facility") = Bare(store[1])
  /\ SameAsOneChunk(OneChunkRead(wrote))

\* C8 as claimed: the same for every file, wherever the references are
C8_AnySplit ==
  (RoundTrip /\ Ended) => SameAsOneChunk(OneChunkRead(wrote))

\* the text of a value in the file: a number in decimal digits, a time in
\* ISO 8601 with the suffix of UTC, a string as it is
TextForm(v) ==
  CASE v.k = "none"     -> None
    [] v.k = "int"      -> S(ToString(v.n))
    [] v.k = "bool"     -> S(IF v.b THEN "true" ELSE "false")
    [] v.k = "datetime" -> S(v.iso \o (IF v.aware THEN "+00:00" ELSE "Z"))
    [] OTHER            -> v

\* the attributes of y are the text of the attributes of w
AttrsAsText(y, w) ==
  /\ y.BeanName = w.BeanName
  /\ \A a \in InstAttr(w.BeanName) \ {"id"} :
       GetAttr(y, a) = TextForm(GetAttr(w, a))

\* the attributes of y are the attributes of w
AttrsEqual(y, w) ==
  /\ y.BeanName = w.BeanName
  /\ \A a \in InstAttr(w.BeanName) \ {"id"} : GetAttr(y, a) = GetAttr(w, a)

\* the object is one the ICAT holds, as a search returns it
InStore(obj) == \E i \in 1..Len(store) : obj = Bare(store[i])

\* a related object of y is the object created from the related object
\* of w
RelLinked(ry, rw) ==
  IF rw = None THEN ry = None
  ELSE /\ ry # None
       /\ InStore(ry)
       /\ AttrsAsText(ry, rw)

RelsLinked(y, w) ==
  \A a \in InstRel(w.BeanName) : RelLinked(GetRel(y, a), GetRel(w, a))

\* the keys of the records from the j-th record of the i-th chunk on
KeysFrom(file, i, j) ==
  {Get(Chunks(file)[i].sub[n], "id") : n \in j..Len(Chunks(file)[i].sub)}

\* the key is the key of a record before the j-th record of the i-th chunk
Before(file, i, j, key) ==
  \/ EarlierInChunk(Chunks(file)[i].sub, j, key)
  \/ \E c \in 1..i - 1 : key \in KeysFrom(file, c, 1)

\* every reference follows the record of the object referred to
RefsFollow(file) ==
  \A i \in 1..Len(Chunks(file)) : \A j \in 1..Len(Chunks(file)[i].sub) :
    \A n \in KeyRefs(Chunks(file)[i].sub[j]) :
      Before(file, i, j, Get(Chunks(file)[i].sub[j].sub[n], "ref"))

\* no two records have the same key
KeysDistinct(file) ==
  \A i \in 1..Len(Chunks(file)) : \A j \in 1..Len(Chunks(file)[i].sub) :
    /\ ~Before(file, i, j, Get(Chunks(file)[i].sub[j], "id"))
    /\ Get(Chunks(file)[i].sub[j], "id") \notin KeysFrom(file, i, j + 1)

\* the objects were written in an order and in chunks that can be read back
Ordered(file) ==
  /\ RefsFollow(file)
  /\ GenericRefsLocal(file)
  /\ KeysDistinct(file)

\* the objects yielded so far are the objects written, in order
YieldedOfWrote(same(_, _)) ==
  /\ Len(yielded) <= Len(wrote)
  /\ \A i \in 1..Len(yielded) : same(yielded[i].obj, wrote[i])

\* C9: when the objects are written so that every reference follows the
\* record of the object referred to (in the same chunk, if that object has
\* a generated key) and no object is written twice, then reading the file
\* back does not fail and yields, for every object written, in order, one
\* object whose attributes are the text of the attributes written and
\* whose many-to-one relations are the objects created from the related
\* objects written
C9_RoundTripAsText ==
  (RoundTrip /\ Ordered(infile)) =>
    /\ rpc \notin {"raised", "aborted"}
    /\ rpc = "done" => Len(yielded) = Len(wrote)
    /\ YieldedOfWrote(AttrsAsText)
    /\ YieldedOfWrote(RelsLinked)

\* C9 witness: the job is read back with its arguments and with the data
\* collection created from the one it had, which has another id, and the
\* facility with the number it had as text
C9_Witness ==
  /\ RoundTrip
  /\ Ordered(infile)
  /\ rpc = "done"
  /\ Len(yielded) = 4
  /\ wrote[3] = Job1
  /\ GetAttr(yielded[3].obj, "arguments") = S("b c")
  /\ GetRel(yielded[3].obj, "inputDataCollection")
       = Entity("DataCollection", 1, [doi |-> S("p")], NoRel, NoMRel)
  /\ Job1.rel.inputDataCollection.id # 1
  /\ wrote[4] = Fac1
  /\ GetAttr(Fac1, "daysUntilRelease") = I(7)
  /\ GetAttr(yielded[4].obj, "daysUntilRelease") = S("7")

\* C9 as claimed: reading back any file written yields, for every object
\* written, one object with equal attributes and the relations linked
C9_RoundTripEqual ==
  (RoundTrip /\ Ended) =>
    /\ rpc = "done"
    /\ Len(yielded) = Len(wrote)
    /\ YieldedOfWrote(AttrsEqual)
    /\ YieldedOfWrote(RelsLinked)

\* the children of y are the text of the children cw, in their order
ChildrenAsText(cy, cw) ==
  /\ Len(cy) = Len(cw)
  /\ \A j \in 1..Len(cw) : AttrsAsText(cy[j], cw[j])

\* the children of y are those of w in the canonical order of objects
ChildrenSorted(y, w) ==
  \A a \in InstMRel(w.BeanName) :
    ChildrenAsText(GetMRel(y, a), SortObjs(GetMRel(w, a)))

\* the children of y are those of w in the order w held them
ChildrenAsHeld(y, w) ==
  \A a \in InstMRel(w.BeanName) :
    ChildrenAsText(GetMRel(y, a), GetMRel(w, a))

\* C10: an object written with k embedded children is read back as one
\* object with k embedded children, which are the children written in the
\* canonical order of objects, whatever the order the object held them in
C10_ChildrenSorted == RoundTrip => YieldedOfWrote(ChildrenSorted)

\* C10 witness: the investigation held the keywords q, a, p and is read
\* back with the keywords a, p, q
C10_Witness ==
  /\ RoundTrip
  /\ Len(yielded) = 2
  /\ wrote[2] = Inv1
  /\ Inv1.mrel.keywords = <<Kw2, Kw3, Kw1>>
  /\ Len(GetMRel(yielded[2].obj, "keywords")) = 3
  /\ GetMRel(yielded[2].obj, "keywords")[1].attr.name = S("a")
  /\ GetMRel(yielded[2].obj, "keywords")[2].attr.name = S("p")
  /\ GetMRel(yielded[2].obj, "keywords")[3].attr.name = S("q")

\* C10 as claimed: the children read back are in the order the object
\* written held them in
C10_ChildrenAsHeld == RoundTrip => YieldedOfWrote(ChildrenAsHeld)


(***************************************************************************)
(* The output of the writer: what is written, and when.                    *)
(***************************************************************************)
\* the records the loop of writeobjs has appended, in order
Appended ==
  [i \in 1..Len(SelectSeq(tried, LAMBDA e : e.ok)) |->
     SelectSeq(tried, LAMBDA e : e.ok)[i].rec]

\* a call of writedata or writeobjs has failed
Failed == tried # <<>> /\ ~tried[Len(tried)].ok

\* the footer is written
Finalized(file) == file # <<>> /\ file[Len(file)] = XmlClose

\* a is a prefix of b
IsPrefix(a, b) == Len(a) <= Len(b) /\ SubSeq(b, 1, Len(a)) = a

\* C11: when an exception leaves the with block of the writer, __exit__
\* writes nothing: the output stays as it was, the chunks flushed before
\* the failure are in it, no record of the chunk in progress is, and no
\* footer
C11_BufferNotWritten ==
  /\ []((Failed /\ wpc \in {"raised", "closed"}) =>
          /\ ~Finalized(outfile)
          /\ Records(outfile, 1)
               = SubSeq(Appended, 1, Len(Appended) - Len(data))
          /\ data = SubSeq(Appended, Len(Appended) - Len(data) + 1,
                           Len(Appended)))
  /\ [][wpc = "raised" => (wpc' = "closed" /\ outfile' = outfile)]_vars

\* the writer was closed by an exception while it held a chunk in
\* progress, after it had flushed another
C11_Witness ==
  /\ wpc = "closed"
  /\ Failed
  /\ data # <<>>
  /\ Chunks(outfile) # <<>>
  /\ ~Finalized(outfile)

\* the writer has entered its with block
WriterEntered == wpc \in {"open", "raised", "closed"}

\* the items of the file after the header, the footer excluded
Body(file) ==
  SubSeq(file, Len(HeadWrites) + 1,
         IF Finalized(file) THEN Len(file) - 1 ELSE Len(file))

\* C12: the output only grows, by appending.  Before the with block is
\* entered it is a part of the header; from then on it is the header once,
\* then chunks, each written whole, then the footer if and only if the
\* with block was left without an exception
C12_AppendOnly ==
  /\ [](/\ ~WriterEntered => IsPrefix(outfile, HeadWrites)
        /\ WriterEntered =>
             /\ IsPrefix(HeadWrites, outfile)
             /\ \A i \in 1..Len(Body(outfile)) :
                  Body(outfile)[i].tag = "data"
             /\ Finalized(outfile) <=> (wpc = "closed" /\ ~Failed))
  /\ [][/\ IsPrefix(outfile, outfile')
        /\ \A i \in Len(outfile) + 1..Len(outfile') :
             outfile'[i].tag = "data" => outfile'[i].sub = data]_vars

\* three chunks and the footer are written
C12_Witness ==
  /\ wpc = "closed"
  /\ Finalized(outfile)
  /\ Len(Chunks(outfile)) = 3

\* C13: no chunk of the output is empty, and the records of the output
\* followed by those of the current chunk are the records appended, each
\* once and in the order they were appended; after finalize the current
\* chunk is empty, so that all of them are in the output
C13_EveryRecordOnce ==
  /\ \A i \in 1..Len(Chunks(outfile)) : Chunks(outfile)[i].sub # <<>>
  /\ Written = Appended
  /\ Finalized(outfile) => (data = <<>> /\ Records(outfile, 1) = Appended)

\* a file is finalized after three calls, one of which started a chunk
\* when the current chunk was empty: it holds two chunks
C13_Witness ==
  /\ Finalized(outfile)
  /\ calls = 3
  /\ Len(Chunks(outfile)) = 2
  /\ Len(Appended) >= 3
  /\ ~Failed


(***************************************************************************)
(* Failures of the key derivation in writeobjs.                            *)
(***************************************************************************)
\* the body of the loop did not complete for the object of the entry:
\* getUniqueKey failed for the object (k is "") or for an object it
\* refers to while its record was made
Underivable(e) == e.k = "" \/ ~e.ok

\* C14: an object the key derivation fails for is the last object the
\* loop of writeobjs takes up.  The exception leaves the with block, no
\* record is appended for the object, the key index gets no entry for an
\* object without a key, and the file is not finalized
C14_FailureAborts ==
  \A i \in 1..Len(tried) :
    Underivable(tried[i]) =>
      /\ i = Len(tried)
      /\ ~tried[i].ok
      /\ wpc \in {"raised", "closed"}
      /\ tried[i].rec = None
      /\ Written = Appended
      /\ Len(Appended) = Len(tried) - 1
      /\ tried[i].k = "" => tried[i].indexed = ""
      /\ tried[i].k # "" => tried[i].indexed = tried[i].k
      /\ ~Finalized(outfile)

\* the derivation failed for the second of three objects of a list: the
\* first is written, the third is not taken up, and the writer is closed
C14_Witness ==
  /\ wpc = "closed"
  /\ Failed
  /\ Len(tried) >= 2
  /\ tried[Len(tried)].obj = Inv1Bare
  /\ tried[Len(tried)].k = ""
  /\ tried[Len(tried) - 1].obj = Dc1
  /\ data # <<>>


(***************************************************************************)
(* The handles of the streams.                                             *)
(***************************************************************************)
\* C15: once the use of a reader or of a writer has ended (the with
\* statement is left, in whatever way, and nothing is left to do), its
\* handle is closed (refuted: when head() raises in __enter__, __exit__
\* is not called and the handle of the writer stays open)
C15_StreamsClosed ==
  /\ wpc \in {"closed", "failed"} => wstream = "closed"
  /\ ~ENABLED Next => (wstream # "open" /\ rstream # "open")


(***************************************************************************)
(* Errors while a chunk is read.                                           *)
(***************************************************************************)
\* getobjs_from_data is at a record
AtRecord ==
  /\ rpc = "elem"
  /\ elemno <= Len(chunk)
  /\ ~EndsWithRef(chunk[elemno].tag)
  /\ InTypemap(chunk[elemno].tag)

\* the tag, after the translation of aliases, names no attribute and no
\* relation of type t
UnknownField(t, tag) ==
  AttrAlias(t, tag) \notin InstAttr(t) \cup InstRel(t) \cup InstMRel(t)

\* the depths at which the element of type t has such a subelement, the
\* element itself at depth d - 1
RECURSIVE UnknownAt(_, _, _)
UnknownAt(element, t, d) ==
  UNION {IF UnknownField(t, element.sub[i].tag) THEN {d}
         ELSE IF AttrAlias(t, element.sub[i].tag) \in InstMRel(t)
         THEN UnknownAt(element.sub[i],
                        getAttrType(t, AttrAlias(t, element.sub[i].tag)),
                        d + 1)
         ELSE {} : i \in 1..Len(element.sub)}

\* the references by key of the element and of its embedded children
RECURSIVE RefsOf(_)
RefsOf(element) ==
  UNION {IF Get(element.sub[i], "ref") # ""
         THEN {Get(element.sub[i], "ref")}
         ELSE RefsOf(element.sub[i]) : i \in 1..Len(element.sub)}

\* each of them is in the index or is the key of one object of the ICAT
RefsResolve(element) ==
  \A key \in RefsOf(element) :
    Indexed(objindex, key) \/ Cardinality(WithKey(key, store)) = 1

\* C17: a record with a subelement, at whatever depth, that is neither
\* attribute nor relation of its type is not yielded: getobjs raises, and
\* what it raises is the error of the invalid subelement (ValueError)
\* unless a reference of the record fails to resolve
C17_UnknownFieldRaises ==
  [][(AtRecord /\ UnknownAt(chunk[elemno], BeanName(chunk[elemno].tag), 1)
                   # {})
       => /\ rpc' = "raised"
          /\ yielded' = yielded
          /\ cur' = cur
          /\ RefsResolve(chunk[elemno]) => rerr' = "ValueError"]_vars

\* getobjs has raised the error for a subelement of an embedded child,
\* after it had yielded an object
C17_Witness ==
  /\ rpc = "raised"
  /\ rerr = "ValueError"
  /\ elemno <= Len(chunk)
  /\ chunk[elemno] = InvBadChild
  /\ UnknownAt(chunk[elemno], "Investigation", 1) = {2}
  /\ Len(yielded) = 1


\* the step is one of getobjs_from_data that a reference which does not
\* resolve ends
RefFails == rpc = "elem" /\ rpc' = "raised" /\ rerr' = "SearchResultError"

\* the entries of the index are kept as they are
EntriesKept ==
  \A key \in DOMAIN objindex :
    key \in DOMAIN objindex' /\ objindex'[key] = objindex[key]

\* C18: when a reference of an element fails to resolve, the error
\* leaves getobjs and nothing is yielded; no entry of the index is removed
\* or changed, and the only entries added are those of references of the
\* same element that were resolved from the ICAT before the failing one:
\* none for the key of the element, none for the reference that failed
C18_IndexKeptOnFailure ==
  [][RefFails =>
       /\ yielded' = yielded
       /\ EntriesKept
       /\ \A key \in DOMAIN objindex' \ DOMAIN objindex :
            /\ key # KeyAt
            /\ key \in RefsOf(chunk[elemno])
            /\ Cardinality(WithKey(key, store)) = 1
            /\ objindex'[key] = Remote(key)]_vars

\* the reference of the keyword has failed after the facility of the
\* investigation was found in the ICAT and entered in the index
C18_Witness ==
  /\ rpc = "raised"
  /\ rerr = "SearchResultError"
  /\ elemno <= Len(chunk)
  /\ chunk[elemno] = InvLostRef
  /\ DOMAIN objindex = {"Facility_name-a"}

\* C18 as claimed: the index is exactly as it was before the failing
\* element (refuted)
C18_IndexUntouched == [][RefFails => objindex' = objindex]_vars


\* the element getobjs_from_data is at cannot be decoded: its tag names no
\* type, a reference does not resolve, or a subelement is invalid
DecodeFails ==
  /\ rpc = "elem"
  /\ elemno <= Len(chunk)
  /\ IF EndsWithRef(chunk[elemno].tag)
     THEN /\ KeyAt # ""
          /\ \/ ~InTypemap(StripRef(chunk[elemno].tag))
             \/ ~searchByReference(chunk[elemno], RefType(chunk[elemno].tag),
                                   objindex, store).ok
     ELSE \/ ~InTypemap(chunk[elemno].tag)
          \/ ~elem2entity(chunk[elemno], BeanName(chunk[elemno].tag),
                          objindex, store).ok

\* C19: an error while an element is decoded ends getobjs: the exception
\* leaves it, no object is yielded for the element, the objects yielded
\* before and the objects created of them stay as they are, and no
\* further element of the chunk or of the file is decoded
C19_ErrorAbortsChunk ==
  /\ [][DecodeFails =>
          /\ rpc' = "raised"
          /\ rerr' \in {"KeyError", "SearchResultError", "ValueError"}
          /\ UNCHANGED <<yielded, store, cur, elemno, chunk, chunkno,
                         filepos>>]_vars
  /\ [][rpc = "raised" =>
          UNCHANGED <<rpc, rerr, yielded, store, cur, elemno, chunk,
                      chunkno, filepos, objindex>>]_vars

\* getobjs has raised at the second of three elements of a chunk, after
\* the caller had created the object of the first, and the handle of the
\* reader is closed
C19_Witness ==
  /\ rpc = "raised"
  /\ rerr = "ValueError"
  /\ elemno = 2
  /\ Len(chunk) = 3
  /\ Len(yielded) = 1
  /\ Len(store) = Len(Store0) + 1
  /\ rstream = "closed"


(***************************************************************************)
(* The keys of the records and the key index of the writer.                *)
(***************************************************************************)
\* C20: for every object written by writeobjs: if its type has 'id' in
\* its constraint, the counter of the type alone is incremented, and the
\* generated key of that number is the id of the record and the entry of
\* the key index under (type name, object id) right after the object is
\* processed; otherwise the id of the record is the key that getUniqueKey
\* returned, and no counter is incremented
C20_RecordIdIsKey ==
  \A i \in 1..Len(tried) :
    tried[i].ok =>
      IF HasIdConstraint(tried[i].obj.BeanName)
      THEN /\ tried[i].after
                = Put(tried[i].before, tried[i].obj.BeanName,
                      Counter(tried[i].before, tried[i].obj.BeanName) + 1)
           /\ Get(tried[i].rec, "id")
                = NumberedKey(tried[i].obj.BeanName,
                              Counter(tried[i].after,
                                      tried[i].obj.BeanName))
           /\ tried[i].indexed = Get(tried[i].rec, "id")
      ELSE /\ tried[i].k # ""
           /\ Get(tried[i].rec, "id") = tried[i].k
           /\ tried[i].after = tried[i].before

\* a job, with its generated key, and an investigation, with its unique
\* key, are written
C20_Witness ==
  /\ \E i \in 1..Len(tried) :
       /\ tried[i].ok
       /\ tried[i].obj = Job1
       /\ tried[i].indexed = "Job_00000001"
  /\ \E i \in 1..Len(tried) :
       /\ tried[i].ok
       /\ tried[i].obj = Inv1
       /\ Get(tried[i].rec, "id") = "Investigation_facility-(name-a)_name-x"
       /\ tried[i].before # [x \in {} |-> 0]

(***************************************************************************)
(* The references the writer emits.                                        *)
(***************************************************************************)
\* the key getUniqueKey forms of the id of an object of a type with 'id'
\* in its constraint
IdKey(o) == o.BeanName \o "_id-" \o ToString(o.id)

\* the key getUniqueKey derives of an object, no key index at hand; "" when
\* the derivation fails
DerivedKey(o) ==
  IF getUniqueKey(o, EmptyIndex).ok
  THEN KeyStr(getUniqueKey(o, EmptyIndex).key) ELSE ""

\* a record written before the j-th is the record of object o and has the
\* key
WrittenEarlier(j, o, key) ==
  \E m \in 1..j - 1 :
    /\ Get(Written[m], "id") = key
    /\ wrote[m].BeanName = o.BeanName
    /\ wrote[m].id = o.id

\* the reference subelem of the j-th record written, o the related object:
\* to an object of a type with 'id' in its constraint it is the generated
\* key of a record of the object written before, or the key formed of the
\* id; to an object of another type it is the key derived of the object
RefEmitted(j, subelem, o) ==
  IF o.BeanName \in GenericTypes
  THEN \/ WrittenEarlier(j, o, Get(subelem, "ref"))
       \/ Get(subelem, "ref") = IdKey(o)
  ELSE Get(subelem, "ref") = DerivedKey(o)

\* C21 (as amended): every to-one reference of a record the writer has
\* written is, for a related object of a type with a uniqueness
\* constraint, the key derived of that object, and for a related object
\* of a type without one either the generated key of a record of that
\* object written earlier by this writer (in this chunk or in an earlier
\* one) or the key formed of the object's id; a generated key is never
\* referred to before the record that carries it
C21_NoForwardReference ==
  /\ Len(wrote) = Len(Written)
  /\ \A j \in 1..Len(Written) : \A i \in KeyRefs(Written[j]) :
       RefEmitted(j, Written[j].sub[i], GetRel(wrote[j], Written[j].sub[i].tag))

\* the chunks the writer has made so far, the one in progress included
ChunksMade ==
  Chunks(outfile) \o (IF data = <<>> THEN <<>> ELSE <<DataEl(data)>>)

\* C21 witness: the job of the second chunk refers to the generated key of
\* the data collection written in the first chunk, and the job of the
\* first chunk follows the data collection it refers to
C21_Witness ==
  /\ Len(ChunksMade) = 2
  /\ Len(ChunksMade[1].sub) = 3
  /\ Get(ChunksMade[1].sub[1], "id") = "DataCollection_00000001"
  /\ ChunksMade[1].sub[3].tag = "job"
  /\ Get(ChunksMade[1].sub[3].sub[2], "ref") = "DataCollection_00000001"
  /\ Len(ChunksMade[2].sub) = 1
  /\ ChunksMade[2].sub[1].tag = "job"
  /\ Get(ChunksMade[2].sub[1].sub[2], "ref") = "DataCollection_00000001"

\* C21 as claimed: in every chunk, a reference to an object of a type
\* without a uniqueness constraint names a record earlier in the same
\* chunk, in whatever order the caller has the objects written
C21_RefsDefinedEarlier ==
  \A c \in 1..Len(ChunksMade) :
    \A j \in 1..Len(ChunksMade[c].sub) :
      \A i \in KeyRefs(ChunksMade[c].sub[j]) :
        ToGeneric(BeanName(ChunksMade[c].sub[j].tag),
                  ChunksMade[c].sub[j].sub[i])
          => \E m \in 1..j - 1 :
               Get(ChunksMade[c].sub[m], "id")
                 = Get(ChunksMade[c].sub[j].sub[i], "ref")

(***************************************************************************)
(* Embedded children.                                                      *)
(***************************************************************************)
\* no element below the element carries an id
RECURSIVE NoIdBelow(_)
NoIdBelow(element) ==
  \A i \in 1..Len(element.sub) :
    /\ Get(element.sub[i], "id") = ""
    /\ NoIdBelow(element.sub[i])

\* the subelements of the element with the tag, in order
Tagged(element, tag) == SelectSeq(element.sub, LAMBDA e : e.tag = tag)

\* the text of the subelement of the element for the attribute, "" when it
\* has none
TextOf(element, attr) ==
  IF Tagged(element, attr) = <<>> THEN ""
  ELSE Tagged(element, attr)[1].text.s

\* the element is the one of the child: it has the text of each attribute
\* of the child that is set
ChildOf(element, child) ==
  \A a \in InstAttr(child.BeanName) \ {"id"} :
    TextOf(element, a) = (IF GetAttr(child, a) = None THEN ""
                          ELSE ToText(GetAttr(child, a)))

\* the record has one element for each child of the object in the
\* relation, in the canonical order of the children, nested in the record
EmbeddedOnce(rec, children, attr) ==
  /\ Len(Tagged(rec, attr)) = Len(children)
  /\ \A i \in 1..Len(children) :
       ChildOf(Tagged(rec, attr)[i], SortObjs(children)[i])

\* the key is a generated one
IsGenerated(key) == \E i \in 1..Len(issued) : issued[i].key = key

\* the body of the loop made no entry of a generated key for the child
NotIndexedAnew(e, child) ==
  \/ IndexedAs(e.index, child) = IndexedAs(e.old, child)
  \/ ~IsGenerated(IndexedAs(e.index, child))

\* the counters after the body of the loop for e.obj: only the one of the
\* type of the object has grown, by one, if the type has 'id' in its
\* constraint
CountedOnce(e) ==
  \A t \in Types :
    Counter(e.after, t)
      = Counter(e.before, t)
          + (IF t = e.obj.BeanName /\ HasIdConstraint(t) THEN 1 ELSE 0)

\* what the body of the loop of writeobjs did with the children of e.obj
ChildrenEmbedded(e) ==
  /\ Get(e.rec, "id") # ""
  /\ NoIdBelow(e.rec)
  /\ CountedOnce(e)
  /\ \A attr \in InstMRel(e.obj.BeanName) :
       /\ EmbeddedOnce(e.rec, GetMRel(e.obj, attr), attr)
       /\ \A i \in 1..Len(GetMRel(e.obj, attr)) :
            NotIndexedAnew(e, GetMRel(e.obj, attr)[i])

\* C22: every record the writer has written carries a key and no element
\* nested in it does; writing an object writes each child of each of its
\* one-to-many relations once, nested in the record of the object,
\* without a key, without taking a number of a counter of generated keys
\* and without an entry of a generated key in the key index for the child
C22_ChildrenEmbedded ==
  /\ \A j \in 1..Len(Written) :
       Get(Written[j], "id") # "" /\ NoIdBelow(Written[j])
  /\ \A i \in 1..Len(tried) : tried[i].ok => ChildrenEmbedded(tried[i])

\* C22 witness: a data collection was written with its two jobs nested in
\* its record, after a job had been written; the counter of the jobs
\* stayed at one, the key index has no entry for the two jobs
C22_Witness ==
  \E i \in 1..Len(tried) :
    /\ tried[i].ok
    /\ tried[i].obj = Dc3
    /\ Len(Tagged(tried[i].rec, "jobsAsInput")) = 2
    /\ TextOf(Tagged(tried[i].rec, "jobsAsInput")[1], "arguments") = "a"
    /\ Counter(tried[i].before, "Job") = 1
    /\ Counter(tried[i].after, "Job") = 1
    /\ IndexedAs(tried[i].index, Job2) = ""
    /\ IndexedAs(tried[i].index, Job3) = ""
    /\ data = <<>>
    /\ wpc = "closed"

(***************************************************************************)
(* The key index of the writedata calls.                                   *)
(***************************************************************************)
\* the entries the call that is the step has added to the history of the
\* loop of writeobjs
NewTried == SubSeq(tried', Len(tried) + 1, Len(tried'))

\* the call that is the step has worked with one key index that was start
\* when the call began: the body of the loop for the first object found
\* start, for each further object what the body for the object before
\* had left, and the call left what the last body left
IndexOfCall(start) ==
  /\ NewTried # <<>> => NewTried[1].old = start
  /\ \A i \in 2..Len(NewTried) : NewTried[i].old = NewTried[i - 1].index
  /\ keyindex' = (IF NewTried = <<>> THEN start
                  ELSE NewTried[Len(NewTried)].index)

\* the call that is the step has written an object with the entry k of
\* the key index, of a type with 'id' in its constraint
Rewritten(k) ==
  \E i \in 1..Len(NewTried) :
    /\ <<NewTried[i].obj.BeanName, NewTried[i].obj.id>> = k
    /\ HasIdConstraint(NewTried[i].obj.BeanName)

\* the key is a generated one, after the step
IsGeneratedNext(key) == \E i \in 1..Len(issued') : issued'[i].key = key

\* every entry of the caller's index before the call is in the index after
\* it, and is as it was unless the call has written the object of the
\* entry and given it a new generated key
KeptOrRenumbered ==
  \A k \in DOMAIN callerindex :
    /\ k \in DOMAIN callerindex'
    /\ callerindex'[k] # callerindex[k]
         => (Rewritten(k) /\ IsGeneratedNext(KeyStr(callerindex'[k])))

\* every entry of the caller's index before the call is in the index after
\* it as it was
KeptAsWas ==
  \A k \in DOMAIN callerindex :
    k \in DOMAIN callerindex' /\ callerindex'[k] = callerindex[k]

\* C23 (as amended): a writedata call without a keyindex starts with an
\* empty key index, whatever the calls before have entered in theirs, and
\* leaves the caller's index alone; a writedata call with the caller's
\* keyindex works with that index, leaves its additions in it, removes no
\* entry of it and changes an entry only by giving an object without
\* uniqueness constraint that it writes again a new generated key
C23_IndexPerCall ==
  [][\A srcs \in SourceLists, c \in ChunkSizes :
       /\ WriteData(srcs, FALSE, c)
            => (IndexOfCall(EmptyIndex) /\ callerindex' = callerindex)
       /\ WriteData(srcs, TRUE, c)
            => (IndexOfCall(callerindex) /\ callerindex' = keyindex'
                  /\ KeptOrRenumbered)]_vars

\* C23 witness: the caller's index held the generated keys of the two data
\* collections; a writedata call without keyindex has then written a job,
\* whose reference is the key formed of the id since the index of the
\* call was empty, and the caller's index is as it was
C23_Witness ==
  /\ Len(tried) = 3
  /\ IndexedAs(callerindex, Dc1) = "DataCollection_00000001"
  /\ IndexedAs(tried[2].index, Dc1) = "DataCollection_00000001"
  /\ tried[3].obj = Job1
  /\ tried[3].ok
  /\ tried[3].old = EmptyIndex
  /\ Get(tried[3].rec.sub[2], "ref") = "DataCollection_id-2"
  /\ keyindex # callerindex

\* C23 as claimed: a writedata call with the caller's keyindex leaves
\* every mapping of it as it was
C23_MappingsKept ==
  [][\A srcs \in SourceLists, c \in ChunkSizes :
       WriteData(srcs, TRUE, c) => KeptAsWas]_vars

(***************************************************************************)
(* The index the caller of getobjs passes.                                 *)
(***************************************************************************)
\* the step is one of getobjs working with the index of the caller: the
\* call itself, or any step after it
WithCallerIndex ==
  \/ rpc = "init" /\ rpc' # "init" /\ ~resetindex'
  \/ rpc # "init" /\ ~resetindex

\* every key entered in the index so far is in the index
AllRegisteredKept ==
  \A p \in registered : p[2] \in DOMAIN objindex

\* C24: getobjs, called with an objindex of the caller, starts with the
\* entries the caller has put in it and never removes a key from it:
\* every key that is in the index before a step of the iteration is in it
\* after the step, over all chunk boundaries, so that every key entered
\* while an earlier chunk was read is still there
C24_CallerIndexKept ==
  /\ []((rpc # "init" /\ ~resetindex) => AllRegisteredKept)
  /\ [][WithCallerIndex => DOMAIN objindex \subseteq DOMAIN objindex']_vars

\* C24 witness: getobjs starts on the second chunk with the index of the
\* caller, which holds the entry the caller had put in it and a key that
\* was entered while the first chunk was read and not since
C24_Witness ==
  /\ wpc = "none"
  /\ ~resetindex
  /\ chunkno = 2
  /\ rpc = "elem"
  /\ "Facility_1" \in DOMAIN objindex
  /\ <<1, "Facility_1">> \notin registered
  /\ <<2, "Facility_1">> \notin registered
  /\ \E key \in DOMAIN objindex :
       <<1, key>> \in registered /\ <<2, key>> \notin registered

(***************************************************************************)
(* The order in which writeobjs writes the objects of a source.            *)
(***************************************************************************)
\* the objects the loop of the call that is the step has taken up
Taken == [i \in 1..Len(NewTried) |-> NewTried[i].obj]

\* the objects are in the canonical order
InSortOrder(objs) ==
  \A i, j \in 1..Len(objs) :
    i < j => ~KeyLess(sortkey(objs[j]), sortkey(objs[i]))

\* no two objects of the list have the same sort key
NoTies(objs) ==
  \A i, j \in 1..Len(objs) : i # j => sortkey(objs[i]) # sortkey(objs[j])

\* the lists with the objects of the list in another order
Permuted(objs) ==
  {[i \in 1..Len(objs) |-> objs[f[i]]] : f \in Permutations(1..Len(objs))}

\* the writer as a writeobjs call of the caller finds it
WriterNow == WState(idcounter, callerindex, data, issued, wrote, TRUE)

\* two calls of writeobjs leave the same records, the same generated keys
\* and the same counters, and both fail or neither
SameWritten(a, b) ==
  /\ a.data = b.data
  /\ a.issued = b.issued
  /\ a.idcounter = b.idcounter
  /\ a.ok = b.ok

\* the call for the list in any other order leaves what the call for the
\* list leaves
AnyOrder(src, chunksize) ==
  \A p \in Permuted(src.objs) :
    SameWritten(writeobjs(WriterNow, List(p), chunksize),
                writeobjs(WriterNow, src, chunksize))

\* the objects of the type in the ICAT, in the order a search returns them
AllOf(t) == SelectSeq(icat, LAMBDA o : o.BeanName = t)

\* the call that is the step has taken up the objects in the order of
\* objs, to the end if it has not failed
TakenFrom(objs) ==
  /\ IsPrefix(Taken, objs)
  /\ wpc' = "open" => Taken = objs

\* the call of writeobjs for a list has taken up the objects in the
\* canonical order, those with equal sort keys in the order of the list
ListSorted(src) ==
  /\ InSortOrder(Taken)
  /\ TakenFrom(SortObjs(src.objs))

\* C25 (as amended): writeobjs writes the objects of a list in the
\* canonical order, objects with the same sort key in the order the list
\* held them in; called for a list in which no two objects have the same
\* sort key, it leaves the same records and the same generated keys
\* whatever the order of the list.  It writes the objects of a query in
\* the order the search returns them, whatever the page size.
C25_ListSorted ==
  [][\A src \in Sources, c \in ChunkSizes :
       WriteObjs(src, c) =>
         IF src.kind = "list"
         THEN /\ ListSorted(src)
              /\ NoTies(src.objs) => AnyOrder(src, c)
         ELSE TakenFrom(AllOf(src.type))]_vars

\* C25 witness: of a list that held the job before the data collection,
\* the data collection was written first, and each got the first generated
\* key of its type
C25_Witness ==
  /\ calls = 1
  /\ Len(tried) = 2
  /\ tried[1].obj = Dc3 /\ tried[1].k = "DataCollection_00000001"
  /\ tried[2].obj = Job1 /\ tried[2].k = "Job_00000001"
  /\ tried[2].ok
  /\ Chunks(outfile) = <<>>
  /\ Len(data) = 2

\* C25 as claimed: any two permutations of a list leave the same records
\* and the same generated keys
C25_AnyPermutation ==
  [][\A src \in Sources, c \in ChunkSizes :
       (WriteObjs(src, c) /\ src.kind = "list") => AnyOrder(src, c)]_vars

(***************************************************************************)
(* The keys derived of the constraint.                                     *)
(***************************************************************************)
\* the values of the attributes of the constraint of an object, a related
\* object by the values of its own
RECURSIVE ConstraintValues(_)
RelValues(o) ==
  IF o = None THEN None ELSE [k |-> "rel", v |-> ConstraintValues(o)]

ConstraintValue(obj, c) ==
  IF c \in InstAttr(obj.BeanName) THEN GetAttr(obj, c)
  ELSE RelValues(GetRel(obj, c))

ConstraintValues(obj) ==
  [i \in 1..Len(Constraint(obj.BeanName)) |->
     ConstraintValue(obj, Constraint(obj.BeanName)[i])]

\* the objects set as relations of an object
RelatedOf(obj) == {obj.rel[a] : a \in DOMAIN obj.rel} \ {None}

\* the objects of types with a uniqueness constraint that the writer has
\* derived a key of: those the loop of writeobjs took up and those they
\* refer to
Keyed ==
  {o \in {tried[i].obj : i \in 1..Len(tried)}
           \cup UNION {RelatedOf(tried[i].obj) : i \in 1..Len(tried)} :
     ~HasIdConstraint(o.BeanName)}

\* the key the loop of writeobjs got for the object of e: the key derived
\* of its values if all of them are set, whether the key index held an
\* entry for the object or not; otherwise the entry of the key index, or
\* none
KeyAsDerived(e) ==
  IF DerivedKey(e.obj) # "" THEN e.k = DerivedKey(e.obj) ELSE e.k = e.was

\* C26 (as amended): the key of an object of a type with a uniqueness
\* constraint whose constraint attributes are all set is a function of
\* the values of these attributes: the writer gets the same key string
\* for the same object whether the key index holds an entry for it or
\* not, and for two objects of the same type with equal values.  For an
\* object with an unset constraint attribute it gets the entry of the key
\* index if there is one, and the derivation fails otherwise.
C26_KeyOfValues ==
  /\ \A i \in 1..Len(tried) :
       ~HasIdConstraint(tried[i].obj.BeanName) => KeyAsDerived(tried[i])
  /\ \A a, b \in Keyed :
       (a.BeanName = b.BeanName /\ ConstraintValues(a) = ConstraintValues(b))
         => DerivedKey(a) = DerivedKey(b)

\* C26 witness: the facility was written twice, the key index holding no
\* entry for it the first time and its key the second time, with the same
\* key; an investigation was taken up whose facility is another object
\* with the same name, and its key has the key of the facility in it
C26_Witness ==
  /\ Len(tried) = 3
  /\ tried[1].obj = Fac1 /\ tried[1].was = "" /\ tried[1].k = "Facility_name-a"
  /\ tried[2].obj = Fac1 /\ tried[2].was = "Facility_name-a"
  /\ tried[2].k = "Facility_name-a"
  /\ tried[3].obj = Inv2
  /\ tried[3].k = "Investigation_facility-(name-a)_name-q"
  /\ FacA \in Keyed /\ Fac1 \in Keyed /\ FacA # Fac1

\* C26 as claimed: the key the writer gets for an object is the key
\* derived of its constraint attribute values, whether or not the key
\* index holds an entry for the object
C26_IndexMakesNoDifference ==
  \A i \in 1..Len(tried) :
    ~HasIdConstraint(tried[i].obj.BeanName)
      => tried[i].k = DerivedKey(tried[i].obj)

(***************************************************************************)
(* The backend open_dumpfile makes an instance of.                         *)
(***************************************************************************)
\* the call of open_dumpfile returned an instance of the class
GotInstance(cls) == opened.did.err = "" /\ opened.did.cls = cls

\* the step is a call of register_backend that has put the pair in the
\* register under the name and left the other names as they were
Registered(b) ==
  /\ DOMAIN Backends' = DOMAIN Backends \cup {b[1]}
  /\ Backends'[b[1]] = <<b[2], b[3]>>
  /\ \A g \in DOMAIN Backends \ {b[1]} : Backends'[g] = Backends[g]

\* C27: open_dumpfile, called for a format that is registered, returns an
\* instance of the reader class of the format if the mode starts with "r"
\* and of its writer class if it starts with "w", the classes being those
\* the register holds at the call; each register_backend call puts its
\* pair in the register under its format name, in place of a pair
\* registered before, and leaves the pairs of the other names alone
C27_BackendOfFormat ==
  /\ []((opened.called /\ opened.formatname \in DOMAIN opened.backends
           /\ ReadOrWrite(opened.mode))
          => GotInstance(opened.backends[opened.formatname]
                         [IF opened.mode[1] = "r" THEN 1 ELSE 2]))
  /\ [][/\ opened' # opened => opened'.backends = Backends
        /\ \A b \in Registrations :
             RegisterBackend(b[1], b[2], b[3]) => Registered(b)]_vars

\* C27 witness: with the caller's backend registered for XML and the YAML
\* backend registered, open_dumpfile for XML and the mode "wt" returned an
\* instance of the caller's writer class
C27_Witness ==
  /\ opened.called
  /\ DOMAIN Backends = {"XML", "YAML"}
  /\ Backends["XML"] = <<"MyReader", "MyWriter">>
  /\ Backends["YAML"] = <<"YAMLDumpFileReader", "YAMLDumpFileWriter">>
  /\ opened.formatname = "XML"
  /\ opened.mode = <<"w", "t">>
  /\ GotInstance("MyWriter")

(***************************************************************************)
(* The run of wipeicat.py, from after the login on, for any content of     *)
(* the ICAT.                                                               *)
(***************************************************************************)
WipeInit ==
  /\ icat = Catalog
  /\ wpc = "none"
  /\ idcounter = [x \in {} |-> 0]
  /\ data = <<>>
  /\ outfile = <<>>
  /\ keyindex = EmptyIndex
  /\ callerindex = EmptyIndex
  /\ calls = 0
  /\ issued = <<>>
  /\ wrote = <<>>
  /\ tried = <<>>
  /\ wcalls = <<>>
  /\ wstream = "none"
  /\ rpc = "init"
  /\ infile = <<>>
  /\ filepos = 0
  /\ chunk = <<>>
  /\ chunkno = 0
  /\ elemno = 0
  /\ resetindex = TRUE
  /\ objindex = EmptyObjIndex
  /\ cur = NoCur
  /\ yielded = <<>>
  /\ store = <<>>
  /\ registered = {}
  /\ rerr = ""
  /\ rstream = "none"
  /\ Backends = NoBackends
  /\ opened = NotCalled
  /\ wipc = "start"
  /\ content \in [Range(getEntityNames) -> Counts]
  /\ typeno = 0
  /\ completed = {}
  /\ removed = <<>>
  /\ server = NoServer
  /\ got = NoCall
  /\ hasids = FALSE
  /\ oldids = FALSE
  /\ dfs = <<>>
  /\ skip = 0
  /\ requests = <<>>
  /\ lastsweep = <<>>
  /\ examined = 0
  /\ defaults = NoHeaders
  /\ built = <<>>
  /\ selection = EmptySelection
  /\ extended = <<>>
  /\ ppc = "idle"
  /\ inputfile = <<>>
  /\ readercrc = Word(0, 0)
  /\ chunksread = <<>>
  /\ received = <<>>
  /\ sent = <<>>
  /\ putres = NoPut
  /\ dumpindex = <<>>
  /\ dumped = <<>>

WipeNext ==
  \/ NoIds
  \/ \E ok \in BOOLEAN : DeleteFacilities(ok)
  \/ DeleteType(0, FALSE)
  \/ LoopDone

WipeSpec == WipeInit /\ [][WipeNext]_vars

\* the entity types that are not needed for access permissions
NotAuthz == {t \in Range(getEntityNames) : t \notin Range(authztables)}

\* C28: in wipeicat, no object of the access-permission types Grouping,
\* Rule, User and UserGroup is deleted through deletetype before
\* deletetype has completed for every other entity type of the ICAT.
C28_AuthzLast ==
  \A i \in 1..Len(removed) :
    removed[i].t \in Range(authztables) => NotAuthz \subseteq removed[i].done

\* the script has come to its end, having deleted objects of type Study
\* and, later, all objects of type User in two turns of deletetype
C28_Witness ==
  /\ wipc = "end"
  /\ content["User"] = 0
  /\ \E i, j, l \in 1..Len(removed) :
       /\ i < j /\ j < l
       /\ removed[i].t = "Study"
       /\ removed[j].t = "User" /\ removed[j].n = searchlimit
       /\ removed[l].t = "User" /\ removed[l].n = 1

(***************************************************************************)
(* The call of IDSClient.getApiVersion, for any server.                    *)
(***************************************************************************)
IdsInit ==
  /\ icat = Catalog
  /\ wpc = "none"
  /\ idcounter = [x \in {} |-> 0]
  /\ data = <<>>
  /\ outfile = <<>>
  /\ keyindex = EmptyIndex
  /\ callerindex = EmptyIndex
  /\ calls = 0
  /\ issued = <<>>
  /\ wrote = <<>>
  /\ tried = <<>>
  /\ wcalls = <<>>
  /\ wstream = "none"
  /\ rpc = "init"
  /\ infile = <<>>
  /\ filepos = 0
  /\ chunk = <<>>
  /\ chunkno = 0
  /\ elemno = 0
  /\ resetindex = TRUE
  /\ objindex = EmptyObjIndex
  /\ cur = NoCur
  /\ yielded = <<>>
  /\ store = <<>>
  /\ registered = {}
  /\ rerr = ""
  /\ rstream = "none"
  /\ Backends = NoBackends
  /\ opened = NotCalled
  /\ wipc = "none"
  /\ content = NoContent
  /\ typeno = 0
  /\ completed = {}
  /\ removed = <<>>
  /\ server \in Servers
  /\ got = NoCall
  /\ hasids = FALSE
  /\ oldids = FALSE
  /\ dfs = <<>>
  /\ skip = 0
  /\ requests = <<>>
  /\ lastsweep = <<>>
  /\ examined = 0
  /\ defaults = NoHeaders
  /\ built = <<>>
  /\ selection = EmptySelection
  /\ extended = <<>>
  /\ ppc = "idle"
  /\ inputfile = <<>>
  /\ readercrc = Word(0, 0)
  /\ chunksread = <<>>
  /\ received = <<>>
  /\ sent = <<>>
  /\ putres = NoPut
  /\ dumpindex = <<>>
  /\ dumped = <<>>

IdsNext == GetApiVersion

IdsSpec == IdsInit /\ [][IdsNext]_vars

\* the call returned the value ret
ReturnedVersion(ret) == got.did.err = "" /\ got.did.ret = ret

\* the call raised: it returned no version, a guessed one even less
RaisedNoVersion == got.did.err # "" /\ got.did.ret = ""

\* the server is reachable: the ping has been made and has succeeded
Reachable ==
  /\ Len(got.did.calls) >= 2
  /\ got.did.calls[2] = "ping"
  /\ server.ping = Answer("IdsOK")

\* the version returned is a guess: it is not what the server reported
Guessed == got.did.err = "" /\ server.getApiVersion.k # "body"

\* C29: IDSClient.getApiVersion returns the version reported by the server
\* when the getApiVersion call succeeds; when that call fails with an
\* IDSError, it pings the server first, and a failed ping raises an error
\* instead of returning a guessed version; only with a reachable server
\* does it return "1.2.0" if isReadOnly succeeds and "1.0.0" if isReadOnly
\* fails with an IDSError.
C29_ApiVersion ==
  got.called =>
    /\ server.getApiVersion.k = "body"
         => /\ ReturnedVersion(server.getApiVersion.text)
            /\ got.did.calls = <<"getApiVersion">>
    /\ IsIDSError(server.getApiVersion)
         => /\ Len(got.did.calls) >= 2 /\ got.did.calls[2] = "ping"
            /\ server.ping # Answer("IdsOK")
                 => /\ RaisedNoVersion
                    /\ got.did.calls[Len(got.did.calls)] = "ping"
            /\ (server.ping = Answer("IdsOK") /\ server.isReadOnly.k = "body")
                 => ReturnedVersion("1.2.0")
            /\ (server.ping = Answer("IdsOK") /\ IsIDSError(server.isReadOnly))
                 => ReturnedVersion("1.0.0")
    /\ Guessed => Reachable

\* the server does not know the getApiVersion call and not the isReadOnly
\* call, and answers the ping: the version returned is the guess "1.0.0"
C29_Witness ==
  /\ got.called
  /\ IsIDSError(server.getApiVersion)
  /\ IsIDSError(server.isReadOnly)
  /\ got.did.calls = <<"getApiVersion", "ping", "isReadOnly">>
  /\ ReturnedVersion("1.0.0")

(***************************************************************************)
(* The chunks of the writedata calls.                                      *)
(***************************************************************************)
\* the objects writeobjs takes up for a source, in order
ObjsOf(src) ==
  IF src.kind = "query" THEN AllOf(src.type) ELSE SortObjs(src.objs)

\* the objects of the sources of a writedata call, in source order
RECURSIVE ObjsOfAll(_)
ObjsOfAll(srcs) ==
  IF srcs = <<>> THEN <<>> ELSE ObjsOf(Head(srcs)) \o ObjsOfAll(Tail(srcs))

\* the records the call that is the step has appended
NewRecords ==
  [i \in 1..Cardinality({j \in 1..Len(NewTried) : NewTried[j].ok}) |->
     NewTried[i].rec]

\* the step writes the chunk in progress before it, if it holds a record,
\* to the output, and nothing else
Flushed ==
  outfile' = IF data = <<>> THEN outfile ELSE Append(outfile, DataEl(data))

\* the writedata call that is the step has started one new chunk, which
\* holds the records of the objects of all its sources, in source order,
\* and nothing else
InOneChunk(srcs) ==
  /\ Flushed
  /\ TakenFrom(ObjsOfAll(srcs))
  /\ data' = NewRecords

\* the step is a call of writedata
IsWriteData == Len(wcalls') > Len(wcalls) /\ wcalls'[Len(wcalls')].writedata

\* a step that adds a chunk to the output is a writedata call, which
\* starts with startdata, or the finalize of __exit__; the chunk is the
\* one that was in progress
AtStartOrFinalize ==
  Chunks(outfile') # Chunks(outfile)
    => /\ IsWriteData \/ ExitOk
       /\ data # <<>>
       /\ Chunks(outfile') = Append(Chunks(outfile), DataEl(data))

\* the calls from call i to the next writedata call have appended a record
WroteUntilNext(i) ==
  \E j \in i..Len(wcalls) :
    /\ wcalls[j].n > 0
    /\ \A m \in (i + 1)..j : ~wcalls[m].writedata

\* the number of writedata calls that by themselves, or followed by
\* writeobjs calls of the caller, have appended a record to their chunk,
\* plus one if writeobjs calls before the first writedata call have
ChunksStarted ==
  Cardinality({i \in 1..Len(wcalls) :
                 (i = 1 \/ wcalls[i].writedata) /\ WroteUntilNext(i)})

\* the number of writedata calls that wrote at least one object
WroteAny ==
  Cardinality({i \in 1..Len(wcalls) : wcalls[i].writedata /\ wcalls[i].n > 0})

\* the output is a finalized file
FileFinalized == wpc = "closed" /\ Finalized(outfile)

\* C30 (as amended): each call of writedata starts exactly one new chunk:
\* all objects of all sources passed in that call land in that one chunk,
\* in source order, whatever the value of chunksize.  A chunk reaches the
\* output only at the next startdata or at finalize.  The number of chunks
\* in a finalized file equals the number of writedata calls whose chunk got
\* at least one object, from the call or from writeobjs calls of the
\* caller that followed it, plus one if writeobjs calls before the first
\* writedata call wrote an object.
C30_OneChunkPerCall ==
  /\ [](FileFinalized => Len(Chunks(outfile)) = ChunksStarted)
  /\ [][/\ IsWriteData => InOneChunk(wcalls'[Len(wcalls')].srcs)
        /\ AtStartOrFinalize]_vars

\* C30 witness: a finalized file of two chunks, written with two writedata
\* calls; the first call had two sources, and its chunk holds a data
\* collection of the first before a job of the second
C30_Witness ==
  /\ FileFinalized
  /\ Len(wcalls) = 2
  /\ wcalls[1].writedata /\ wcalls[2].writedata
  /\ Len(Chunks(outfile)) = 2
  /\ Len(Chunks(outfile)[1].sub) = wcalls[1].n
  /\ wcalls[1].n > 2
  /\ Chunks(outfile)[1].sub[1].tag = "dataCollection"
  /\ Chunks(outfile)[1].sub[wcalls[1].n].tag = "job"
  /\ Len(Chunks(outfile)[2].sub) = wcalls[2].n

\* C30 as claimed: the number of chunks in a finalized file equals the
\* number of writedata calls that wrote at least one object
C30_ChunksOfWritedata ==
  FileFinalized => Len(Chunks(outfile)) = WroteAny

(***************************************************************************)
(* The objects getobjs yields and the records of the file.                 *)
(***************************************************************************)
\* the records of the chunks of the file up to item n
RecordsUpTo(n) == Records(SubSeq(infile, 1, n), 1)

\* the first n records of the chunk at hand
OfChunk(n) == SubSeq(infile[filepos].sub, 1, n)

\* the top-level records getobjs has passed, in document order: those of
\* the chunks before, and those of the chunk at hand up to the element at
\* hand, which counts once it has given its object
RecordsPassed ==
  CASE rpc = "init" -> <<>>
    [] rpc \in {"getdata", "done"} -> RecordsUpTo(filepos)
    [] rpc = "raised" /\ rerr = "XMLSyntaxError" -> RecordsUpTo(filepos)
    [] rpc \in {"elem", "raised"} /\ rerr # "XMLSyntaxError"
         -> RecordsUpTo(filepos - 1) \o OfChunk(elemno - 1)
    [] OTHER -> RecordsUpTo(filepos - 1) \o OfChunk(elemno)

\* the records that are no reference-only records
NotRefs(recs) == SelectSeq(recs, LAMBDA e : ~EndsWithRef(e.tag))

\* the subelements of a record for the one-to-many relation attr
SubsFor(rec, attr) == SelectSeq(rec.sub, LAMBDA e : e.tag = attr)

\* the object has the value of each attribute subelement of the element
AttrsOf(obj, elem) ==
  \A i \in 1..Len(elem.sub) :
    elem.sub[i].tag \in InstAttr(obj.BeanName)
      => GetAttr(obj, elem.sub[i].tag) = elem.sub[i].text

\* the children of the object for attr are those of the subelements of
\* the record for attr, in document order
ChildrenFor(obj, rec, attr) ==
  /\ Len(GetMRel(obj, attr)) = Len(SubsFor(rec, attr))
  /\ \A j \in 1..Len(SubsFor(rec, attr)) :
       /\ GetMRel(obj, attr)[j].BeanName = getAttrType(obj.BeanName, attr)
       /\ AttrsOf(GetMRel(obj, attr)[j], SubsFor(rec, attr)[j])

\* what getobjs yielded is the object of the record: its key, its type,
\* its attributes and its embedded children
YieldedOf(y, rec) ==
  /\ y.key = Get(rec, "id")
  /\ y.obj.BeanName = BeanName(rec.tag)
  /\ AttrsOf(y.obj, rec)
  /\ \A attr \in InstMRel(y.obj.BeanName) : ChildrenFor(y.obj, rec, attr)

\* C31: getobjs yields exactly one object for each top-level record of
\* the file that is not a reference-only record, in document order across
\* all chunks; embedded children are attached to their parent in document
\* order and never yielded on their own, and the header is not consumed:
\* what is yielded is the objects of the records of the data elements.
C31_OnePerRecord ==
  /\ Len(yielded) = Len(NotRefs(RecordsPassed))
  /\ \A i \in 1..Len(yielded) :
       YieldedOf(yielded[i], NotRefs(RecordsPassed)[i])
  /\ rpc = "done" => RecordsPassed = Records(infile, 1)

\* C31 witness: a file of two chunks has been read to its end; each chunk
\* starts with a reference-only record, and two objects were yielded, the
\* first with its two keywords in the order of the file
C31_Witness ==
  /\ rpc = "done"
  /\ chunkno = 2
  /\ Len(Records(infile, 1)) = 4
  /\ EndsWithRef(Records(infile, 1)[1].tag)
  /\ EndsWithRef(Records(infile, 1)[3].tag)
  /\ Len(yielded) = 2
  /\ yielded[1].key = "Inv_6"
  /\ Len(GetMRel(yielded[1].obj, "keywords")) = 2
  /\ GetAttr(GetMRel(yielded[1].obj, "keywords")[1], "name") = S("p")
  /\ GetAttr(GetMRel(yielded[1].obj, "keywords")[2], "name") = S("a")
  /\ yielded[2].key = "Inv_2"

(***************************************************************************)
(* The chunk the reader holds.                                             *)
(***************************************************************************)
\* the reader holds nothing but the chunk getdata yielded last: the
\* elements of the data element the parser is at
HoldsOneChunk ==
  chunk # <<>>
    => /\ filepos \in 1..Len(infile)
       /\ infile[filepos].tag = "data"
       /\ chunk = infile[filepos].sub

\* getobjs has passed every element of the chunk
AllIterated == rpc = "elem" /\ elemno = Len(chunk) + 1

\* a step in which getdata yields a chunk
Produces == chunkno' = chunkno + 1

\* a step in which getdata clears the chunk it yielded
Clears == chunk # <<>> /\ chunk' = <<>>

\* C32: the reader holds the parsed structure of at most one chunk at a
\* time: a chunk is produced only after the previous chunk has been
\* cleared, and a chunk is cleared only after getobjs has finished
\* iterating all of its elements.
C32_OneChunkAtATime ==
  /\ [](HoldsOneChunk /\ (rpc = "getdata" => chunk = <<>>))
  /\ [][/\ Produces => chunk = <<>>
        /\ Clears => AllIterated]_vars

\* C32 witness: the second chunk of a file is being iterated, the first
\* one, which held records, was cleared before
C32_Witness ==
  /\ chunkno = 2
  /\ rpc = "yielded"
  /\ chunk # <<>>
  /\ Len(yielded) > 1
  /\ Len(Records(infile, 1)) > Len(chunk)

(***************************************************************************)
(* The run of wipeicat.py with an ICAT in which every deleteMany call,     *)
(* failing or not, removes at least one of the objects it was given.  The  *)
(* script is a sequential program that is run to its end: a step that can  *)
(* be taken is taken.                                                      *)
(***************************************************************************)
\* the number of entity types that hold objects at the start
MaxHeld == 3

WipeLiveInit ==
  /\ icat = Catalog
  /\ wpc = "none"
  /\ idcounter = [x \in {} |-> 0]
  /\ data = <<>>
  /\ outfile = <<>>
  /\ keyindex = EmptyIndex
  /\ callerindex = EmptyIndex
  /\ calls = 0
  /\ issued = <<>>
  /\ wrote = <<>>
  /\ tried = <<>>
  /\ wcalls = <<>>
  /\ wstream = "none"
  /\ rpc = "init"
  /\ infile = <<>>
  /\ filepos = 0
  /\ chunk = <<>>
  /\ chunkno = 0
  /\ elemno = 0
  /\ resetindex = TRUE
  /\ objindex = EmptyObjIndex
  /\ cur = NoCur
  /\ yielded = <<>>
  /\ store = <<>>
  /\ registered = {}
  /\ rerr = ""
  /\ rstream = "none"
  /\ Backends = NoBackends
  /\ opened = NotCalled
  /\ wipc = "start"
  /\ content \in {c \in [Range(getEntityNames) -> Counts] :
                    Cardinality({t \in DOMAIN c : c[t] > 0}) <= MaxHeld}
  /\ typeno = 0
  /\ completed = {}
  /\ removed = <<>>
  /\ server = NoServer
  /\ got = NoCall
  /\ hasids = FALSE
  /\ oldids = FALSE
  /\ dfs = <<>>
  /\ skip = 0
  /\ requests = <<>>
  /\ lastsweep = <<>>
  /\ examined = 0
  /\ defaults = NoHeaders
  /\ built = <<>>
  /\ selection = EmptySelection
  /\ extended = <<>>
  /\ ppc = "idle"
  /\ inputfile = <<>>
  /\ readercrc = Word(0, 0)
  /\ chunksread = <<>>
  /\ received = <<>>
  /\ sent = <<>>
  /\ putres = NoPut
  /\ dumpindex = <<>>
  /\ dumped = <<>>

WipeLiveNext ==
  \/ NoIds
  \/ \E ok \in BOOLEAN : DeleteFacilities(ok)
  \/ DeleteType(1, TRUE)
  \/ LoopDone

WipeLiveSpec ==
  WipeLiveInit /\ [][WipeLiveNext]_vars /\ WF_vars(WipeLiveNext)

\* deletetype is running for the type t
Deleting(t) ==
  /\ wipc \in {"others", "authz"}
  /\ typeno <= Len(TypesOf(wipc))
  /\ TypeAtHand = t

\* C33: deletetype(t) returns only in a state where a search for objects
\* of type t has returned nothing; an ICATInternalError raised by
\* deleteMany is ignored and the loop searches again.  It terminates, by
\* returning or with an exception that is no ICATInternalError, provided
\* every deleteMany call, failing or not, removes at least one of the
\* objects it was given.
C33_DeleteTypeEnds ==
  /\ [][/\ \A t \in completed' \ completed :
             Found(content[t]) = 0 /\ content' = content
        /\ \A k \in 0..searchlimit :
             (Deleting(TypeAtHand) /\ DeleteTypeMany(TypeAtHand, TRUE, k))
               => Deleting(TypeAtHand)' /\ completed' = completed]_vars
  /\ \A t \in Range(getEntityNames) :
       Deleting(t) ~> (t \in completed \/ wipc = "failed")

\* C33 witness: deletetype has returned for Study after three deleteMany
\* calls, the first two of which removed all but one of the objects they
\* were given, and the script went on to its end
C33_Witness ==
  /\ "Study" \in completed
  /\ content["Study"] = 0
  /\ wipc = "end"
  /\ \E i \in 1..Len(removed) :
       /\ i + 2 <= Len(removed)
       /\ removed[i].t = "Study" /\ removed[i].n = searchlimit - 1
       /\ removed[i + 1].t = "Study" /\ removed[i + 1].n = 1
       /\ removed[i + 2].t = "Study" /\ removed[i + 2].n = 1

(***************************************************************************)
(* The first step of wipeicat.py, with an IDS: the loop over the sweeps.   *)
(* The ICAT holds Datafiles with a location only; the IDS has them online  *)
(* or archived, and works on the restore requests when it pleases.         *)
(***************************************************************************)
\* the numbers of Datafiles with a location: none, one, a page and one
Populations == {0, 1, searchlimit + 1}

\* the status of Datafile i at the start: all online, all archived, the
\* last one only archived, or every second one archived
StatusAt(layout, i, n) ==
  CASE layout = "online"   -> "ONLINE"
    [] layout = "archived" -> "ARCHIVED"
    [] layout = "last"     -> IF i = n THEN "ARCHIVED" ELSE "ONLINE"
    [] layout = "mixed"    -> IF i % 2 = 0 THEN "ARCHIVED" ELSE "ONLINE"

Layouts == {"online", "archived", "last", "mixed"}

SweepInit ==
  /\ icat = Catalog
  /\ wpc = "none"
  /\ idcounter = [x \in {} |-> 0]
  /\ data = <<>>
  /\ outfile = <<>>
  /\ keyindex = EmptyIndex
  /\ callerindex = EmptyIndex
  /\ calls = 0
  /\ issued = <<>>
  /\ wrote = <<>>
  /\ tried = <<>>
  /\ wcalls = <<>>
  /\ wstream = "none"
  /\ rpc = "init"
  /\ infile = <<>>
  /\ filepos = 0
  /\ chunk = <<>>
  /\ chunkno = 0
  /\ elemno = 0
  /\ resetindex = TRUE
  /\ objindex = EmptyObjIndex
  /\ cur = NoCur
  /\ yielded = <<>>
  /\ store = <<>>
  /\ registered = {}
  /\ rerr = ""
  /\ rstream = "none"
  /\ Backends = NoBackends
  /\ opened = NotCalled
  /\ wipc = "start"
  /\ hasids = TRUE
  /\ oldids \in BOOLEAN
  /\ dfs \in {[i \in 1..n |-> StatusAt(layout, i, n)] :
                n \in Populations, layout \in Layouts}
  /\ content = [t \in Range(getEntityNames) |->
                  IF t = "Datafile" THEN Len(dfs) ELSE 0]
  /\ typeno = 0
  /\ completed = {}
  /\ removed = <<>>
  /\ server = NoServer
  /\ got = NoCall
  /\ skip = 0
  /\ requests = <<>>
  /\ lastsweep = <<>>
  /\ examined = 0
  /\ defaults = NoHeaders
  /\ built = <<>>
  /\ selection = EmptySelection
  /\ extended = <<>>
  /\ ppc = "idle"
  /\ inputfile = <<>>
  /\ readercrc = Word(0, 0)
  /\ chunksread = <<>>
  /\ received = <<>>
  /\ sent = <<>>
  /\ putres = NoPut
  /\ dumpindex = <<>>
  /\ dumped = <<>>

SweepNext ==
  \/ StartSweep
  \/ DeletePage
  \/ RestorePage
  \/ CheckLeft
  \/ \E all, evict \in BOOLEAN : BringOnline(all, evict)

SweepSpec == SweepInit /\ [][SweepNext]_vars

\* no deleteData request of the sweep comes after a restore request of it
DeletesBeforeRestores ==
  \A i, j \in 1..Len(requests) :
    (requests[i].op = "restore" /\ requests[j].op = "deleteData") => j < i

\* the step leaves the loop over the sweeps
LeavesLoop == wipc \in {"sweep", "online", "archived", "check"}
                /\ wipc' = "facility"

\* C34: the IDS deletion loop of wipeicat exits only in a state where a
\* search for Datafiles with a non-null location returns nothing; within
\* each sweep all deletions of ONLINE data are issued before any restore
\* request for ARCHIVED data.
C34_SweepOrder ==
  /\ []DeletesBeforeRestores
  /\ [][/\ LeavesLoop => Len(Page(dfs, 0)) = 0 /\ content["Datafile"] = 0
        /\ requests' # requests =>
             \/ requests' = <<>>
             \/ /\ requests'[Len(requests')].op = "deleteData"
                /\ wipc = "online"
             \/ /\ requests'[Len(requests')].op = "restore"
                /\ wipc = "archived"]_vars

\* C34 witness: the loop has been left after a sweep that deleted the
\* last Datafile; the sweep before had deleted a page of Datafiles and
\* then requested the restore of that one
C34_Witness ==
  /\ wipc = "facility"
  /\ Len(dfs) = 0
  /\ content["Datafile"] = 0
  /\ requests = <<Request("deleteData", 1)>>
  /\ lastsweep = <<Request("deleteData", searchlimit), Request("restore", 1)>>


\* the steps of the script in the loop over the sweeps
SweepScript == StartSweep \/ DeletePage \/ RestorePage \/ CheckLeft

\* the work of the IDS on its queue
SweepIds == \E all, evict \in BOOLEAN : BringOnline(all, evict)

\* The script is a sequential program that takes its next step, and the
\* IDS eventually brings the Datafiles it was asked to restore online.
SweepLiveSpec ==
  /\ SweepInit
  /\ [][SweepNext]_vars
  /\ WF_vars(SweepScript)
  /\ WF_vars(SweepIds)

\* the step is made by getDfSelections with a page that is not empty
PageFound == examined' > examined

\* the loop has been left with no Datafile with a location in the ICAT
AllDeleted ==
  /\ wipc = "facility"
  /\ Len(dfs) = 0
  /\ content["Datafile"] = 0

RequestParameters == {<<>>, <<<<"sessionId", "s">>>>,
                      <<<<"sessionId", "s">>, <<"zip", "false">>>>}
RequestMethods == {"", "GET", "POST", "DELETE"}
RequestHeadersArgs == {NoHeaders, [x \in {"Content-Type"} |-> "text/plain"]}

RequestInit ==
  /\ icat = Catalog
  /\ wpc = "none"
  /\ idcounter = [x \in {} |-> 0]
  /\ data = <<>>
  /\ outfile = <<>>
  /\ keyindex = EmptyIndex
  /\ callerindex = EmptyIndex
  /\ calls = 0
  /\ issued = <<>>
  /\ wrote = <<>>
  /\ tried = <<>>
  /\ wcalls = <<>>
  /\ wstream = "none"
  /\ rpc = "init"
  /\ infile = <<>>
  /\ filepos = 0
  /\ chunk = <<>>
  /\ chunkno = 0
  /\ elemno = 0
  /\ resetindex = TRUE
  /\ objindex = EmptyObjIndex
  /\ cur = NoCur
  /\ yielded = <<>>
  /\ store = <<>>
  /\ registered = {}
  /\ rerr = ""
  /\ rstream = "none"
  /\ Backends = NoBackends
  /\ opened = NotCalled
  /\ wipc = "none"
  /\ content = NoContent
  /\ typeno = 0
  /\ completed = {}
  /\ removed = <<>>
  /\ server = NoServer
  /\ got = NoCall
  /\ hasids = FALSE
  /\ oldids = FALSE
  /\ dfs = <<>>
  /\ skip = 0
  /\ requests = <<>>
  /\ lastsweep = <<>>
  /\ examined = 0
  /\ defaults = NoHeaders
  /\ built = <<>>
  /\ selection = EmptySelection
  /\ extended = <<>>
  /\ ppc = "idle"
  /\ inputfile = <<>>
  /\ readercrc = Word(0, 0)
  /\ chunksread = <<>>
  /\ received = <<>>
  /\ sent = <<>>
  /\ putres = NoPut
  /\ dumpindex = <<>>
  /\ dumped = <<>>

RequestNext ==
  \E url \in {"https://ids/ids/"}, parameters \in RequestParameters,
     body \in {None}, given \in BOOLEAN, headers \in RequestHeadersArgs,
     method \in RequestMethods :
    IDSRequest(url, parameters, body, given, headers, method)

RequestSpec == RequestInit /\ [][RequestNext]_vars

\* request i was built by POST with parameters and without the argument
\* headers
PostByDefault(i) ==
  /\ built[i].method = "POST"
  /\ built[i].parameters # <<>>
  /\ ~built[i].given

\* request j has a Content-Type header, which add_header stores capitalized
HasContentType(j) == capitalize("Content-Type") \in DOMAIN built[j].headers

\* C36: constructing an IDSRequest has no effect on requests constructed
\* later: after a POST request with parameters has been built without an
\* explicit headers argument, a later request built without a headers
\* argument carries no Content-Type header inherited from it (one that
\* its own arguments do not give it).
C36_NoInheritedHeader ==
  \A i, j \in 1..Len(built) :
    (i < j /\ PostByDefault(i) /\ ~built[j].given
       /\ ~(built[j].method = "POST" /\ built[j].parameters # <<>>))
    => ~HasContentType(j)


(***************************************************************************)
(* The calls of DataSelection.extend on one selection.                     *)
(***************************************************************************)
\* the length of the sequences passed to extend
MaxObjs == 3

\* an entity object with an id
Ent(t, id) == Entity(t, id, <<>>, <<>>, <<>>)

\* the elements of the sequences: entities the IDS deals with, an entity of
\* another type, and a number
SelectionItems == {Ent("Investigation", 1), Ent("Dataset", 2),
                   Ent("Datafile", 3), Ent("Datafile", 4),
                   Ent("Facility", 5), I(6)}

SelectionSeqs == UNION {[1..n -> SelectionItems] : n \in 0..MaxObjs}

OtherSelections == {EmptySelection,
                    [invIds |-> <<1>>, dsIds |-> <<>>, dfIds |-> <<4, 3>>]}

ExtendArgs == {ASequence(items) : items \in SelectionSeqs}
              \cup {ASelection(sel) : sel \in OtherSelections}
              \cup {AMapping(sel) : sel \in OtherSelections}
              \cup {AnObject(Ent("Datafile", 3))}

SelectionInit ==
  /\ icat = Catalog
  /\ wpc = "none"
  /\ idcounter = [x \in {} |-> 0]
  /\ data = <<>>
  /\ outfile = <<>>
  /\ keyindex = EmptyIndex
  /\ callerindex = EmptyIndex
  /\ calls = 0
  /\ issued = <<>>
  /\ wrote = <<>>
  /\ tried = <<>>
  /\ wcalls = <<>>
  /\ wstream = "none"
  /\ rpc = "init"
  /\ infile = <<>>
  /\ filepos = 0
  /\ chunk = <<>>
  /\ chunkno = 0
  /\ elemno = 0
  /\ resetindex = TRUE
  /\ objindex = EmptyObjIndex
  /\ cur = NoCur
  /\ yielded = <<>>
  /\ store = <<>>
  /\ registered = {}
  /\ rerr = ""
  /\ rstream = "none"
  /\ Backends = NoBackends
  /\ opened = NotCalled
  /\ wipc = "none"
  /\ content = NoContent
  /\ typeno = 0
  /\ completed = {}
  /\ removed = <<>>
  /\ server = NoServer
  /\ got = NoCall
  /\ hasids = FALSE
  /\ oldids = FALSE
  /\ dfs = <<>>
  /\ skip = 0
  /\ requests = <<>>
  /\ lastsweep = <<>>
  /\ examined = 0
  /\ defaults = NoHeaders
  /\ built = <<>>
  /\ selection = EmptySelection
  /\ extended = <<>>
  /\ ppc = "idle"
  /\ inputfile = <<>>
  /\ readercrc = Word(0, 0)
  /\ chunksread = <<>>
  /\ received = <<>>
  /\ sent = <<>>
  /\ putres = NoPut
  /\ dumpindex = <<>>
  /\ dumped = <<>>

SelectionNext == \E objs \in ExtendArgs : DataSelectionExtend(objs)

SelectionSpec == SelectionInit /\ [][SelectionNext]_vars

\* o is not an entity, or an entity of another type
Offending(o) == ~IsEntity(o) \/ o.BeanName \notin DataTypes

\* the place of the first offending element of items, Len(items) + 1 when
\* there is none
FirstOffending(items) ==
  IF \E n \in 1..Len(items) : Offending(items[n])
  THEN CHOOSE n \in 1..Len(items) :
         Offending(items[n]) /\ \A m \in 1..(n - 1) : ~Offending(items[m])
  ELSE Len(items) + 1

\* the elements before the first offending one
BeforeOffending(items) == SubSeq(items, 1, FirstOffending(items) - 1)

\* the ids of the entities of type t in items, in order
IdsOfSelected(objs) == [n \in 1..Len(objs) |-> objs[n].id]
IdsOf(items, t) ==
  IdsOfSelected(SelectSeq(items, LAMBDA o : o.BeanName = t))

\* the selection after call c
AfterCall(c) ==
  IF c = Len(extended) THEN selection ELSE extended[c + 1].before

\* what the call raises for items
RaisedFor(items) ==
  IF FirstOffending(items) > Len(items) THEN ""
  ELSE IF IsEntity(items[FirstOffending(items)]) THEN "ValueError"
  ELSE "TypeError"

\* C37: DataSelection.extend over a sequence adds the id of each
\* Investigation, Dataset and Datafile entity to invIds, dsIds and dfIds
\* respectively, in order; on the first element that is an entity of
\* another type (ValueError) or not an entity (TypeError) it raises, and
\* the ids of the elements before the offending one have already been
\* added and stay in the selection.
C37_ExtendSequence ==
  \A c \in 1..Len(extended) :
    extended[c].objs.k = "seq" =>
      /\ extended[c].raised = RaisedFor(extended[c].objs.items)
      /\ AfterCall(c).invIds =
           extended[c].before.invIds
             \o IdsOf(BeforeOffending(extended[c].objs.items), "Investigation")
      /\ AfterCall(c).dsIds =
           extended[c].before.dsIds
             \o IdsOf(BeforeOffending(extended[c].objs.items), "Dataset")
      /\ AfterCall(c).dfIds =
           extended[c].before.dfIds
             \o IdsOf(BeforeOffending(extended[c].objs.items), "Datafile")

\* C37 witness: a selection that held a Datafile was extended with a
\* Dataset, a Datafile and a Facility; the call raised ValueError and the
\* two ids are in the selection
C37_Witness ==
  /\ Len(extended) = 2
  /\ extended[2].objs = ASequence(<<Ent("Dataset", 2), Ent("Datafile", 3),
                                    Ent("Facility", 5)>>)
  /\ extended[2].raised = "ValueError"
  /\ extended[2].before.dfIds = <<4>>
  /\ selection = [invIds |-> <<>>, dsIds |-> <<2>>, dfIds |-> <<4, 3>>]


(***************************************************************************)
(* One call of IDSClient.put.                                              *)
(***************************************************************************)
\* the length of the input stream
MaxBytes == 3

Bytes == {97, 98}

InputStreams == UNION {[1..n -> Bytes] : n \in 0..MaxBytes}

PutInit ==
  /\ icat = Catalog
  /\ wpc = "none"
  /\ idcounter = [x \in {} |-> 0]
  /\ data = <<>>
  /\ outfile = <<>>
  /\ keyindex = EmptyIndex
  /\ callerindex = EmptyIndex
  /\ calls = 0
  /\ issued = <<>>
  /\ wrote = <<>>
  /\ tried = <<>>
  /\ wcalls = <<>>
  /\ wstream = "none"
  /\ rpc = "init"
  /\ infile = <<>>
  /\ filepos = 0
  /\ chunk = <<>>
  /\ chunkno = 0
  /\ elemno = 0
  /\ resetindex = TRUE
  /\ objindex = EmptyObjIndex
  /\ cur = NoCur
  /\ yielded = <<>>
  /\ store = <<>>
  /\ registered = {}
  /\ rerr = ""
  /\ rstream = "none"
  /\ Backends = NoBackends
  /\ opened = NotCalled
  /\ wipc = "none"
  /\ content = NoContent
  /\ typeno = 0
  /\ completed = {}
  /\ removed = <<>>
  /\ server = NoServer
  /\ got = NoCall
  /\ hasids = FALSE
  /\ oldids = FALSE
  /\ dfs = <<>>
  /\ skip = 0
  /\ requests = <<>>
  /\ lastsweep = <<>>
  /\ examined = 0
  /\ defaults = NoHeaders
  /\ built = <<>>
  /\ selection = EmptySelection
  /\ extended = <<>>
  /\ ppc = "idle"
  /\ inputfile = <<>>
  /\ readercrc = Word(0, 0)
  /\ chunksread = <<>>
  /\ received = <<>>
  /\ sent = <<>>
  /\ putres = NoPut
  /\ dumpindex = <<>>
  /\ dumped = <<>>

PutNext ==
  \/ PutMissing
  \/ \E stream \in InputStreams : PutOpen(stream)
  \/ \E n \in 1..MaxBytes, garbled \in BOOLEAN : PutChunk(n, garbled)
  \/ PutFailed
  \/ \E id \in {7} : PutDone(id)

PutSpec == PutInit /\ [][PutNext]_vars

\* the chunks read, one after the other
RECURSIVE Joined(_)
Joined(chunks) ==
  IF chunks = <<>> THEN <<>> ELSE Head(chunks) \o Joined(Tail(chunks))

\* the CRC32 of all the bytes read, as a number without sign
CrcOfRead == Masked(crc32(Joined(chunksread), Word(0, 0)))

\* the checksum the server reports for what it got
Reported == PutAnswer(received, 0).checksum

\* C38: IDSClient.put returns the id of the new datafile only when the
\* checksum reported by the server equals the CRC32 that the client
\* accumulated over every chunk it read from the input stream; on a
\* mismatch it raises IDSResponseError and returns no id; a missing input
\* stream raises ValueError before any request is sent.
C38_PutChecksum ==
  ppc = "done" =>
    /\ putres.called
    /\ putres.raised = "" => sent # <<>> /\ Reported = CrcOfRead
    /\ (sent # <<>> /\ putres.raised # "IDSError" /\ Reported # CrcOfRead)
         => putres = PutRaised("IDSResponseError")
    /\ sent = <<>> => putres = PutRaised("ValueError")

\* C38 witness: the stream "ab" was read in two chunks, the server got
\* them as they were and reported 0x9e83486d, and put returned the id
C38_Witness ==
  /\ ppc = "done"
  /\ chunksread = <<<<97>>, <<98>>>>
  /\ readercrc = Word(40579 - 65536, 18541)
  /\ Reported = Word(40579, 18541)
  /\ putres = PutReturned(7)


(***************************************************************************)
(* The calls of getobjs of icatdump.py.                                    *)
(***************************************************************************)
Studies == {Study(10, "a"), Study(9, "a"), Study(2, "b"), Study(1, "b c")}

\* the results of a search: some of the objects, each once, in any order
SearchResults ==
  {objs \in UNION {[1..n -> Studies] : n \in 0..Cardinality(Studies)} :
     \A i, j \in 1..Len(objs) : objs[i] = objs[j] => i = j}

IcatdumpInit ==
  /\ icat = Catalog
  /\ wpc = "none"
  /\ idcounter = [x \in {} |-> 0]
  /\ data = <<>>
  /\ outfile = <<>>
  /\ keyindex = EmptyIndex
  /\ callerindex = EmptyIndex
  /\ calls = 0
  /\ issued = <<>>
  /\ wrote = <<>>
  /\ tried = <<>>
  /\ wcalls = <<>>
  /\ wstream = "none"
  /\ rpc = "init"
  /\ infile = <<>>
  /\ filepos = 0
  /\ chunk = <<>>
  /\ chunkno = 0
  /\ elemno = 0
  /\ resetindex = TRUE
  /\ objindex = EmptyObjIndex
  /\ cur = NoCur
  /\ yielded = <<>>
  /\ store = <<>>
  /\ registered = {}
  /\ rerr = ""
  /\ rstream = "none"
  /\ Backends = NoBackends
  /\ opened = NotCalled
  /\ wipc = "none"
  /\ content = NoContent
  /\ typeno = 0
  /\ completed = {}
  /\ removed = <<>>
  /\ server = NoServer
  /\ got = NoCall
  /\ hasids = FALSE
  /\ oldids = FALSE
  /\ dfs = <<>>
  /\ skip = 0
  /\ requests = <<>>
  /\ lastsweep = <<>>
  /\ examined = 0
  /\ defaults = NoHeaders
  /\ built = <<>>
  /\ selection = EmptySelection
  /\ extended = <<>>
  /\ ppc = "idle"
  /\ inputfile = <<>>
  /\ readercrc = Word(0, 0)
  /\ chunksread = <<>>
  /\ received = <<>>
  /\ sent = <<>>
  /\ putres = NoPut
  /\ dumpindex = <<>>
  /\ dumped = <<>>

IcatdumpNext ==
  \E name \in {"Study"}, objs \in SearchResults, reindex \in BOOLEAN :
    IcatdumpGetObjs(name, objs, reindex)

IcatdumpSpec == IcatdumpInit /\ [][IcatdumpNext]_vars

\* the place of a key in the order of strings
KeyRank(k) == CHOOSE i \in 1..Len(KeyOrder) : KeyOrder[i] = k

\* the object of call c whose dict is stored under the i-th new key
StoredAt(c, i) ==
  CHOOSE e \in Studies :
    dumped[c].d[dumped[c].name \o "_" \o Fmt08(i)] = Converted(e)

\* call c with reindex: the keys are name_00000001 to name_0000000n, and
\* the objects found are stored under them in ascending order of their keys
Renumbered(c) ==
  /\ DOMAIN dumped[c].d =
       {dumped[c].name \o "_" \o Fmt08(i) : i \in 1..Len(dumped[c].objs)}
  /\ \A i \in 1..Len(dumped[c].objs) :
       \E n \in 1..Len(dumped[c].objs) :
         dumped[c].d[dumped[c].name \o "_" \o Fmt08(i)]
           = Converted(dumped[c].objs[n])
  /\ \A i, j \in 1..Len(dumped[c].objs) :
       i < j => KeyRank(StudyKey(StoredAt(c, i)))
                  < KeyRank(StudyKey(StoredAt(c, j)))

\* call c without reindex: each object under its own unique key
UnderOwnKey(c) ==
  /\ DOMAIN dumped[c].d =
       {StudyKey(dumped[c].objs[n]) : n \in 1..Len(dumped[c].objs)}
  /\ \A n \in 1..Len(dumped[c].objs) :
       dumped[c].d[StudyKey(dumped[c].objs[n])]
         = Converted(dumped[c].objs[n])

\* C39: in icatdump.py, getobjs with reindex set gives the n objects it
\* found the keys name_00000001 to name_0000000n without gaps, assigned in
\* ascending order of their unique keys; the numbering starts again at 1
\* on every getobjs call, and without reindex each object is stored under
\* its own unique key.
C39_Reindex ==
  \A c \in 1..Len(dumped) :
    IF dumped[c].reindex THEN Renumbered(c) ELSE UnderOwnKey(c)

\* C39 witness: two calls with reindex; the second found the Studies 2, 9
\* and 10 in this order and stored them as Study_00000001 (10),
\* Study_00000002 (9) and Study_00000003 (2)
C39_Witness ==
  /\ Len(dumped) = 2
  /\ dumped[1].reindex
  /\ Len(dumped[1].objs) = 2
  /\ dumped[2].reindex
  /\ dumped[2].objs = <<Study(2, "b"), Study(9, "a"), Study(10, "a")>>
  /\ DOMAIN dumped[2].d
       = {"Study_00000001", "Study_00000002", "Study_00000003"}
  /\ dumped[2].d["Study_00000001"] = Converted(Study(10, "a"))
  /\ dumped[2].d["Study_00000002"] = Converted(Study(9, "a"))
  /\ dumped[2].d["Study_00000003"] = Converted(Study(2, "b"))

=============================================================================
